---------------------------- MODULE Spec2Model ----------------------------
(***************************************************************************)
(* A model of the JSDA semantic column mapping and monthly extraction      *)
(* engine (src/final_mapping.py, class FinalJSDAProcessor).                *)
(*                                                                         *)
(* Text is a sequence of one-character strings, so that substring tests,   *)
(* the numeric clean-up, the date regular expression and the               *)
(* lexicographic sort of period labels are computed as the code computes   *)
(* them.  A cell of a sheet is a record [t, a, b, s]:                      *)
(*   t = "nan"   an empty cell (pandas NaN)                                *)
(*   t = "num"   a numeric cell of value a                                 *)
(*   t = "str"   a text cell of text s                                     *)
(*   t = "date"  a datetime cell of year a and month b                     *)
(* Numeric values are integers: the inputs carry no fractional digits      *)
(* other than zeros.                                                       *)
(*                                                                         *)
(* A Python dict whose iteration order matters (a ColumnMapping, the       *)
(* pattern registry) is a sequence of entries in insertion order.          *)
(* A canonical field code "JPN.<code>.<scope>.<col>" is the tuple          *)
(* <<code, scope, col>>.                                                   *)
(***************************************************************************)
EXTENDS Integers, Sequences, FiniteSets, TLC

VARIABLES
    config_exists,   \* does the configuration document exist
    attrs,           \* attributes the constructed processor defines
    df,              \* the RawGrid of the sheet being processed
    sheet_type,      \* its SheetCategory
    pc,              \* position in the pipeline
    header_row,      \* _detect_columns_dynamically: header row, -1 if none
    data_start_row,  \* _detect_columns_dynamically: located data row
    col_mapping,     \* _detect_columns_dynamically: the dynamic mapping
    data_row_start,  \* process_sheet: data start row returned by detection
    mapping,         \* process_sheet: ColumnMapping returned by detection
    month,           \* process_sheet: row counter
    data_dict,       \* process_sheet: the MonthlyRecord being built
    emitted,         \* history: the source rows a record was emitted for
    all_data,        \* process_excel_file: SheetCategory -> MonthlyRecord
    all_rows,        \* create_output_dataframe: the rows of the matrix
    final_mappings,  \* self.final_mappings: the static fallback tables
    workbook,        \* process_excel_file: the sheets of the workbook
    sheet_index,     \* process_excel_file: position of the next sheet
    sheets_processed, \* process_excel_file: sheets that gave a record
    visited,         \* history: the positions handed to process_sheet
    results,         \* history: what each call of process_excel_file returned
    workflow_state,  \* JSDAOrchestrator.workflow_state
    flow             \* the orchestrator's call in progress and its directory

vars == <<config_exists, attrs, df, sheet_type, pc, header_row,
          data_start_row, col_mapping, data_row_start, mapping, month,
          data_dict, emitted, all_data, all_rows, final_mappings,
          workbook, sheet_index, sheets_processed, visited, results,
          workflow_state, flow>>

\* the variables of process_excel_file alone
file_vars == <<workbook, sheet_index, sheets_processed, visited, results>>

\* the variables of the orchestrator
flow_vars == <<workflow_state, flow>>

\* None as a file name
Unset == "None"

\* self.workflow_state as __init__ leaves it
NewWorkflowState ==
    [download_completed |-> FALSE, processing_completed |-> FALSE,
     output_generated |-> FALSE, downloaded_file |-> Unset,
     output_file |-> Unset]

\* an orchestrator just constructed: no call in progress, the download
\* directory as it is found, nothing handed to the processor yet
NewFlow(dir) ==
    [pc |-> "idle", mode |-> "none", skip |-> FALSE, step1 |-> "notrun",
     step2 |-> "notrun", step3 |-> "notrun", returned |-> "none",
     download_dir |-> dir, invocations |-> <<>>, calls |-> 0]

-----------------------------------------------------------------------------
(* Text *)

Digits == <<"0", "1", "2", "3", "4", "5", "6", "7", "8", "9">>

IsDigit(c) == \E i \in 1..Len(Digits) : Digits[i] = c

DigitVal(c) == (CHOOSE i \in 1..Len(Digits) : Digits[i] = c) - 1

\* sub in s
Contains(sub, s) ==
    \E i \in 0..(Len(s) - Len(sub)) : SubSeq(s, i + 1, i + Len(sub)) = sub

\* ' '.join(parts)
RECURSIVE Join(_)
Join(parts) ==
    IF parts = <<>> THEN <<>>
    ELSE IF Len(parts) = 1 THEN parts[1]
    ELSE parts[1] \o <<" ">> \o Join(Tail(parts))

\* s.strip()
RECURSIVE LStrip(_)
LStrip(s) == IF s # <<>> /\ s[1] = " " THEN LStrip(Tail(s)) ELSE s

RECURSIVE RStrip(_)
RStrip(s) ==
    IF s # <<>> /\ s[Len(s)] = " " THEN RStrip(SubSeq(s, 1, Len(s) - 1)) ELSE s

Strip(s) == RStrip(LStrip(s))

\* str(n) of a natural number
RECURSIVE NatToText(_)
NatToText(n) ==
    IF n < 10 THEN <<Digits[n + 1]>>
    ELSE NatToText(n \div 10) \o <<Digits[(n % 10) + 1]>>

\* str(n) of an integer
IntToText(n) == IF n < 0 THEN <<"-">> \o NatToText(-n) ELSE NatToText(n)

\* int(s) of a text of digits
RECURSIVE DigitsToNat(_)
DigitsToNat(s) ==
    IF s = <<>> THEN 0
    ELSE 10 * DigitsToNat(SubSeq(s, 1, Len(s) - 1)) + DigitVal(s[Len(s)])

\* f"{m:02d}"
Pad2(m) == IF m < 10 THEN <<"0">> \o NatToText(m) ELSE NatToText(m)

\* f"{year}-{month:02d}"
Label(year, m) == IntToText(year) \o <<"-">> \o Pad2(m)

-----------------------------------------------------------------------------
(* Cells *)

NaN == [t |-> "nan", a |-> 0, b |-> 0, s |-> <<>>]
Num(v) == [t |-> "num", a |-> v, b |-> 0, s |-> <<>>]
Str(s) == [t |-> "str", a |-> 0, b |-> 0, s |-> s]
Date(y, m) == [t |-> "date", a |-> y, b |-> m, s |-> <<>>]

\* pd.notna(v)
NotNa(c) == c.t # "nan"

\* str(v): a datetime prints as "YYYY-MM-01 00:00:00"
CellStr(c) ==
    CASE c.t = "num" -> IntToText(c.a)
      [] c.t = "str" -> c.s
      [] c.t = "date" ->
            Label(c.a, c.b)
            \o <<"-", "0", "1", " ", "0", "0", ":", "0", "0", ":", "0", "0">>
      [] OTHER -> <<"n", "a", "n">>

-----------------------------------------------------------------------------
(* Pattern Registry and the processor's tables *)

TxtNumber == <<"N", "u", "m", "b", "e", "r">>

TxtKensu == <<"u4EF6", "u6570">>

TxtAmount == <<"A", "m", "o", "u", "n", "t">>

TxtChotatsu == <<"u8ABF", "u9054", "u984D">>

TxtUridashi == <<"u58F2", "u51FA", "u984D">>

TxtNonIPO == <<"N", "o", "n", " ", "I", "P", "O">>

TxtIPO == <<"I", "P", "O">>

TxtCB == <<"C", "B">>

TxtLess10 == <<"L", "e", "s", "s", " ", "t", "h", "a", "n", " ", "1", "0">>

TxtTo50 ==
    <<"1", "0", " ", "b", "i", "l", "l", "i", "o", "n", " ", "y", "e", "n",
      " ", "t", "o", " ", "l", "e", "s", "s", " ", "t", "h", "a", "n", " ",
      "5", "0">>

TxtTo100 ==
    <<"5", "0", " ", "b", "i", "l", "l", "i", "o", "n", " ", "y", "e", "n",
      " ", "t", "o", " ", "l", "e", "s", "s", " ", "t", "h", "a", "n", " ",
      "1", "0", "0">>

TxtMore100 ==
    <<"1", "0", "0", " ", "b", "i", "l", "l", "i", "o", "n", " ", "y", "e",
      "n", " ", "o", "r", " ", "m", "o", "r", "e">>

TxtTotal == <<"T", "o", "t", "a", "l">>

Txt2020 == <<"2", "0", "2", "0">>

Txt2021 == <<"2", "0", "2", "1">>

Txt2022 == <<"2", "0", "2", "2">>

Txt2023 == <<"2", "0", "2", "3">>

Txt2024 == <<"2", "0", "2", "4">>

Txt2025 == <<"2", "0", "2", "5">>

Txt2026 == <<"2", "0", "2", "6">>

\* the regular expression's separator class [年/-]
DateSeparators == {"u5E74", "/", "-"}

\* None as a field template
NoTarget == <<>>

\* self.header_to_target of _setup_header_mapping: pattern -> (number
\* template, amount template), in insertion order
DefaultHeaderToTarget ==
    <<[pattern |->
          <<"u682A", "u5238", "uFF08", "u65B0", "u898F", "u4E0A",
            "u5834", "u4EE5", "u5916", "uFF09">>,
        num |-> <<"SNIPO", "{scope}", "N.M">>,
        amt |-> <<"SNIPO", "{scope}", "A.M">>],
       [pattern |->
          <<"u682A", "u5238", "u7B49", "uFF08", "u65B0", "u898F",
            "u516C", "u958B", "u4EE5", "u5916", "uFF09">>,
        num |-> <<"SNIPO", "{scope}", "N.M">>,
        amt |-> <<"SNIPO", "{scope}", "A.M">>],
       [pattern |->
          <<"S", "t", "o", "c", "k", "s", "(", "N", "o", "n", " ", "I",
            "P", "O", ")">>,
        num |-> <<"SNIPO", "{scope}", "N.M">>,
        amt |-> <<"SNIPO", "{scope}", "A.M">>],
       [pattern |->
          <<"S", "t", "o", "c", "k", "s", ",", "e", "t", "c", ".", "(",
            "S", "h", "a", "r", "e", "s", ",", "D", "R", ")">>,
        num |-> <<"SNIPO", "{scope}", "N.M">>,
        amt |-> <<"SNIPO", "{scope}", "A.M">>],
       [pattern |->
          <<"N", "o", "n", " ", "I", "P", "O">>,
        num |-> <<"SNIPO", "{scope}", "N.M">>,
        amt |-> <<"SNIPO", "{scope}", "A.M">>],
       [pattern |->
          <<"u8EE2", "u63DB", "u793E", "u50B5", "u578B", "u65B0",
            "u682A", "u4E88", "u7D04", "u6A29", "u4ED8", "u793E",
            "u50B5", "u5238">>,
        num |-> <<"CB", "{scope}", "N.M">>,
        amt |-> <<"CB", "{scope}", "A.M">>],
       [pattern |->
          <<"u8EE2", "u63DB", "u793E", "u50B5", "u578B">>,
        num |-> <<"CB", "{scope}", "N.M">>,
        amt |-> <<"CB", "{scope}", "A.M">>],
       [pattern |->
          <<"C", "o", "n", "v", "e", "r", "t", "i", "b", "l", "e", " ",
            "B", "o", "n", "d", "s">>,
        num |-> <<"CB", "{scope}", "N.M">>,
        amt |-> <<"CB", "{scope}", "A.M">>],
       [pattern |->
          <<"C", "B">>,
        num |-> <<"CB", "{scope}", "N.M">>,
        amt |-> <<"CB", "{scope}", "A.M">>],
       [pattern |->
          <<"u65B0", "u682A", "u4E88", "u7D04", "u6A29", "u4ED8",
            "u793E", "u50B5", "u5238">>,
        num |-> <<"BWSO", "{scope}", "N.M">>,
        amt |-> <<"BWSO", "{scope}", "A.M">>],
       [pattern |->
          <<"u65B0", "u682A", "u4E88", "u7D04", "u6A29", "u4ED8",
            "u793E", "u50B5">>,
        num |-> <<"BWSO", "{scope}", "N.M">>,
        amt |-> <<"BWSO", "{scope}", "A.M">>],
       [pattern |->
          <<"B", "o", "n", "d", "s", " ", "w", "i", "t", "h", " ", "S",
            "h", "a", "r", "e", " ", "O", "p", "t", "i", "o", "n", "s">>,
        num |-> <<"BWSO", "{scope}", "N.M">>,
        amt |-> <<"BWSO", "{scope}", "A.M">>],
       [pattern |->
          <<"B", "w", "S", "O">>,
        num |-> <<"BWSO", "{scope}", "N.M">>,
        amt |-> <<"BWSO", "{scope}", "A.M">>],
       [pattern |->
          <<"u65B0", "u682A", "u4E88", "u7D04", "u6A29", "u8A3C",
            "u5238">>,
        num |-> <<"SOC", "{scope}", "N.M">>,
        amt |-> <<"SOC", "{scope}", "A.M">>],
       [pattern |->
          <<"S", "h", "a", "r", "e", " ", "O", "p", "t", "i", "o", "n",
            " ", "C", "e", "r", "t", "i", "f", "i", "c", "a", "t", "e",
            "s">>,
        num |-> <<"SOC", "{scope}", "N.M">>,
        amt |-> <<"SOC", "{scope}", "A.M">>],
       [pattern |->
          <<"S", "h", "a", "r", "e", " ", "O", "p", "t", "i", "o", "n">>,
        num |-> <<"SOC", "{scope}", "N.M">>,
        amt |-> <<"SOC", "{scope}", "A.M">>],
       [pattern |->
          <<"u682A", "u5238", "u7B49", "uFF08", "u65B0", "u898F",
            "u4E0A", "u5834", "uFF09">>,
        num |-> <<"SIPO", "{scope}", "N.M">>,
        amt |-> <<"SIPO", "{scope}", "A.M">>],
       [pattern |->
          <<"u682A", "u5238", "u7B49", "uFF08", "u65B0", "u898F",
            "u516C", "u958B", "uFF09">>,
        num |-> <<"SIPO", "{scope}", "N.M">>,
        amt |-> <<"SIPO", "{scope}", "A.M">>],
       [pattern |->
          <<"S", "t", "o", "c", "k", "s", "(", "I", "P", "O", ")">>,
        num |-> <<"SIPO", "{scope}", "N.M">>,
        amt |-> <<"SIPO", "{scope}", "A.M">>],
       [pattern |->
          <<"I", "P", "O">>,
        num |-> <<"SIPO", "{scope}", "N.M">>,
        amt |-> <<"SIPO", "{scope}", "A.M">>],
       [pattern |->
          <<"u8ABF", "u9054", "u984D", "u8A08">>,
        num |-> <<"TF", "{scope}", "N.M">>,
        amt |-> <<"TF", "{scope}", "A.M">>],
       [pattern |->
          <<"u8A08">>,
        num |-> <<"TF", "{scope}", "N.M">>,
        amt |-> <<"TF", "{scope}", "A.M">>],
       [pattern |->
          <<"T", "o", "t", "a", "l", " ", "D", "o", "m", "e", "s", "t",
            "i", "c", " ", "F", "i", "n", "a", "n", "c", "i", "n", "g">>,
        num |-> <<"TF", "{scope}", "N.M">>,
        amt |-> <<"TF", "{scope}", "A.M">>],
       [pattern |->
          <<"T", "o", "t", "a", "l", " ", "O", "v", "e", "r", "s", "e",
            "a", "s", " ", "F", "i", "n", "a", "n", "c", "i", "n", "g">>,
        num |-> <<"TF", "{scope}", "N.M">>,
        amt |-> <<"TF", "{scope}", "A.M">>],
       [pattern |->
          <<"T", "o", "t", "a", "l", " ", "F", "i", "n", "a", "n", "c",
            "i", "n", "g">>,
        num |-> <<"TF", "{scope}", "N.M">>,
        amt |-> <<"TF", "{scope}", "A.M">>],
       [pattern |->
          <<"u30B9", "u30A4", "u30B9", "u30D5", "u30E9", "u30F3",
            "u5EFA">>,
        num |-> <<"SF", "MRKT", "N.M">>,
        amt |-> <<"SF", "MRKT", "A.M">>],
       [pattern |->
          <<"u30B9", "u30A4", "u30B9", "u30D5", "u30E9", "u30F3">>,
        num |-> <<"SF", "MRKT", "N.M">>,
        amt |-> <<"SF", "MRKT", "A.M">>],
       [pattern |->
          <<"S", "w", "i", "s", "s", " ", "F", "r", "a", "n", "c">>,
        num |-> <<"SF", "MRKT", "N.M">>,
        amt |-> <<"SF", "MRKT", "A.M">>],
       [pattern |->
          <<"u30E6", "u30FC", "u30ED", "u5EFA">>,
        num |-> <<"EURL", "MRKT", "N.M">>,
        amt |-> <<"EURL", "MRKT", "A.M">>],
       [pattern |->
          <<"u30E6", "u30FC", "u30ED">>,
        num |-> <<"EURL", "MRKT", "N.M">>,
        amt |-> <<"EURL", "MRKT", "A.M">>],
       [pattern |->
          <<"E", "u", "r", "o", "d", "o", "l", "l", "a", "r">>,
        num |-> <<"EURL", "MRKT", "N.M">>,
        amt |-> <<"EURL", "MRKT", "A.M">>],
       [pattern |->
          <<"E", "u", "r", "o">>,
        num |-> <<"EURL", "MRKT", "N.M">>,
        amt |-> <<"EURL", "MRKT", "A.M">>],
       [pattern |->
          <<"u305D", "u306E", "u4ED6">>,
        num |-> <<"OTH", "MRKT", "N.M">>,
        amt |-> <<"OTH", "MRKT", "A.M">>],
       [pattern |->
          <<"O", "t", "h", "e", "r", " ", "M", "a", "r", "k", "e", "t",
            "s">>,
        num |-> <<"OTH", "MRKT", "N.M">>,
        amt |-> <<"OTH", "MRKT", "A.M">>],
       [pattern |->
          <<"O", "t", "h", "e", "r">>,
        num |-> <<"OTH", "MRKT", "N.M">>,
        amt |-> <<"OTH", "MRKT", "A.M">>],
       [pattern |->
          <<"u682A", "u4E3B", "u5272", "u5F53">>,
        num |-> <<"SH", "REF", "N.M">>,
        amt |-> <<"SH", "REF", "A.M">>],
       [pattern |->
          <<"S", "h", "a", "r", "e", "h", "o", "l", "d", "e", "r", " ",
            "A", "l", "l", "o", "t", "m", "e", "n", "t">>,
        num |-> <<"SH", "REF", "N.M">>,
        amt |-> <<"SH", "REF", "A.M">>],
       [pattern |->
          <<"S", "h", "a", "r", "e", "h", "o", "l", "d", "e", "r">>,
        num |-> <<"SH", "REF", "N.M">>,
        amt |-> <<"SH", "REF", "A.M">>],
       [pattern |->
          <<"u7B2C", "u4E09", "u8005", "u5272", "u5F53">>,
        num |-> <<"TP", "REF", "N.M">>,
        amt |-> <<"TP", "REF", "A.M">>],
       [pattern |->
          <<"T", "h", "i", "r", "d", " ", "P", "a", "r", "t", "y">>,
        num |-> <<"TP", "REF", "N.M">>,
        amt |-> <<"TP", "REF", "A.M">>],
       [pattern |->
          <<"u682A", "u5238", "u7B49", "uFF08", "u65B0", "u898F",
            "u516C", "u958B", "u4EE5", "u5916", "uFF09", "u58F2",
            "u51FA">>,
        num |-> <<"NIPO", "{scope}", "N.M">>,
        amt |-> <<"NIPO", "{scope}", "A.M">>],
       [pattern |->
          <<"u65B0", "u898F", "u516C", "u958B", "u4EE5", "u5916">>,
        num |-> <<"NIPO", "{scope}", "N.M">>,
        amt |-> <<"NIPO", "{scope}", "A.M">>],
       [pattern |->
          <<"u682A", "u5238", "u7B49", "uFF08", "u65B0", "u898F",
            "u516C", "u958B", "uFF09", "u58F2", "u51FA">>,
        num |-> <<"IPO", "{scope}", "N.M">>,
        amt |-> <<"IPO", "{scope}", "A.M">>],
       [pattern |->
          <<"u65B0", "u898F", "u516C", "u958B">>,
        num |-> <<"IPO", "{scope}", "N.M">>,
        amt |-> <<"IPO", "{scope}", "A.M">>],
       [pattern |->
          <<"u58F2", "u51FA", "u8A08">>,
        num |-> <<"TTL", "{scope}", "N.M">>,
        amt |-> <<"TTL", "{scope}", "A.M">>],
       [pattern |->
          <<"1", "0", "u5104", "u5186", "u672A", "u6E80">>,
        num |-> <<"L10B", "{scope}", "N.M">>,
        amt |-> NoTarget],
       [pattern |->
          <<"L", "e", "s", "s", " ", "t", "h", "a", "n", " ", "1", "0">>,
        num |-> <<"L10B", "{scope}", "N.M">>,
        amt |-> NoTarget],
       [pattern |->
          <<"1", "0", "B", "u672A", "u6E80">>,
        num |-> <<"L10B", "{scope}", "N.M">>,
        amt |-> NoTarget],
       [pattern |->
          <<"1", "0", "u5104", "u5186", "u4EE5", "u4E0A", "5", "0",
            "u5104", "u5186", "u672A", "u6E80">>,
        num |-> <<"L50B", "{scope}", "N.M">>,
        amt |-> NoTarget],
       [pattern |->
          <<"5", "0", "u5104", "u5186", "u672A", "u6E80">>,
        num |-> <<"L50B", "{scope}", "N.M">>,
        amt |-> NoTarget],
       [pattern |->
          <<"1", "0", " ", "b", "i", "l", "l", "i", "o", "n", " ", "y",
            "e", "n", " ", "t", "o", " ", "l", "e", "s", "s", " ", "t",
            "h", "a", "n", " ", "5", "0">>,
        num |-> <<"L50B", "{scope}", "N.M">>,
        amt |-> NoTarget],
       [pattern |->
          <<"1", "0", "B", "u4EE5", "u4E0A", "5", "0", "B", "u672A",
            "u6E80">>,
        num |-> <<"L50B", "{scope}", "N.M">>,
        amt |-> NoTarget],
       [pattern |->
          <<"5", "0", "u5104", "u5186", "u4EE5", "u4E0A", "1", "0", "0",
            "u5104", "u5186", "u672A", "u6E80">>,
        num |-> <<"L100B", "{scope}", "N.M">>,
        amt |-> NoTarget],
       [pattern |->
          <<"1", "0", "0", "u5104", "u5186", "u672A", "u6E80">>,
        num |-> <<"L100B", "{scope}", "N.M">>,
        amt |-> NoTarget],
       [pattern |->
          <<"5", "0", " ", "b", "i", "l", "l", "i", "o", "n", " ", "y",
            "e", "n", " ", "t", "o", " ", "l", "e", "s", "s", " ", "t",
            "h", "a", "n", " ", "1", "0", "0">>,
        num |-> <<"L100B", "{scope}", "N.M">>,
        amt |-> NoTarget],
       [pattern |->
          <<"5", "0", "B", "u4EE5", "u4E0A", "1", "0", "0", "B", "u672A",
            "u6E80">>,
        num |-> <<"L100B", "{scope}", "N.M">>,
        amt |-> NoTarget],
       [pattern |->
          <<"1", "0", "0", "u5104", "u5186", "u4EE5", "u4E0A">>,
        num |-> <<"M100B", "{scope}", "N.M">>,
        amt |-> NoTarget],
       [pattern |->
          <<"1", "0", "0", " ", "b", "i", "l", "l", "i", "o", "n", " ",
            "y", "e", "n", " ", "o", "r", " ", "m", "o", "r", "e">>,
        num |-> <<"M100B", "{scope}", "N.M">>,
        amt |-> NoTarget],
       [pattern |->
          <<"1", "0", "0", "B", "u4EE5", "u4E0A">>,
        num |-> <<"M100B", "{scope}", "N.M">>,
        amt |-> NoTarget],
       [pattern |->
          <<"u5408", "u8A08">>,
        num |-> <<"TTL", "{scope}", "N.M">>,
        amt |-> NoTarget],
       [pattern |->
          <<"T", "o", "t", "a", "l">>,
        num |-> <<"TTL", "{scope}", "N.M">>,
        amt |-> NoTarget]>>


\* A configuration document: header_mappings only, so that scope_mapping,
\* column_indicators and date_patterns take the defaults the code gives.
ConfigHeaderMappings ==
    <<[code |-> "SNIPO", japanese |-> <<>>, english |-> <<TxtNonIPO>>,
       number_col |-> "N.M", amount_col |-> "A.M"],
      [code |-> "SIPO", japanese |-> <<>>, english |-> <<TxtIPO>>,
       number_col |-> "N.M", amount_col |-> "A.M"],
      [code |-> "CB", japanese |-> <<>>, english |-> <<TxtCB>>,
       number_col |-> "N.M", amount_col |-> "A.M"],
      [code |-> "L10B", japanese |-> <<>>, english |-> <<TxtLess10>>,
       number_col |-> "N.M", amount_col |-> ""],
      [code |-> "TTL", japanese |-> <<>>, english |-> <<TxtTotal>>,
       number_col |-> "N.M", amount_col |-> ""],
      [code |-> "NUMB", japanese |-> <<>>, english |-> <<TxtNumber>>,
       number_col |-> "N.M", amount_col |-> ""],
      [code |-> "M100B", japanese |-> <<>>, english |-> <<TxtMore100>>,
       number_col |-> "", amount_col |-> "A.M"]>>

\* header_to_target[pattern] = (num, amt): a dict keeps a key's first place
PutPattern(d, e) ==
    IF \E i \in 1..Len(d) : d[i].pattern = e.pattern
    THEN [i \in 1..Len(d) |-> IF d[i].pattern = e.pattern THEN e ELSE d[i]]
    ELSE Append(d, e)

ConfigEntries(m) ==
    LET patterns == m.japanese \o m.english
    IN [i \in 1..Len(patterns) |->
          [pattern |-> patterns[i],
           num |-> IF m.number_col # ""
                   THEN <<m.code, "{scope}", m.number_col>> ELSE NoTarget,
           amt |-> IF m.amount_col # ""
                   THEN <<m.code, "{scope}", m.amount_col>> ELSE NoTarget]]

RECURSIVE PutAll(_, _)
PutAll(d, es) == IF es = <<>> THEN d ELSE PutAll(PutPattern(d, es[1]), Tail(es))

RECURSIVE HeaderToTargetFrom(_, _)
HeaderToTargetFrom(d, ms) ==
    IF ms = <<>> THEN d
    ELSE HeaderToTargetFrom(PutAll(d, ConfigEntries(ms[1])), Tail(ms))

\* self.header_to_target of a processor built with (TRUE) or without
\* (FALSE) the configuration document
header_to_target(cfg) ==
    IF cfg THEN HeaderToTargetFrom(<<>>, ConfigHeaderMappings)
    ELSE DefaultHeaderToTarget

\* the attributes __init__ leaves on the processor
ProcessorAttrs(cfg) ==
    {"config", "target_columns", "column_descriptions", "sheet_mappings",
     "header_to_target", "sheet_scope", "final_mappings"}
    \cup (IF cfg THEN {"column_indicators"} ELSE {})

sheet_scope ==
       "domestic" :> "DOM"
    @@ "overseas" :> "OVR"
    @@ "total" :> "TTL"
    @@ "size_breakdown" :> "SZ"
    @@ "market_breakdown" :> "MRKT"
    @@ "reference" :> "REF"
    @@ "secondary_domestic" :> "SDDOM"
    @@ "secondary_overseas" :> "SDOVR"
    @@ "secondary_total" :> "SDTTL"
    @@ "secondary_size" :> "SDSZ"

number_indicators == <<TxtKensu, TxtNumber>>

amount_indicators == <<TxtChotatsu, TxtUridashi, TxtAmount>>

all_indicators == number_indicators \o amount_indicators

\* the Data Row Locator's year tokens
year_indicators ==
    <<Txt2020, Txt2021, Txt2022, Txt2023, Txt2024, Txt2025, Txt2026>>

\* the Monthly Extractor's year tokens
extractor_years == <<Txt2025, Txt2024, Txt2023, Txt2022, Txt2021, Txt2020>>

\* any(tok in text for tok in toks)
AnyIn(toks, text) == \E i \in 1..Len(toks) : Contains(toks[i], text)

target_columns ==
    <<<<"SNIPO", "DOM", "N.M">>, <<"SNIPO", "DOM", "A.M">>,
      <<"CB", "DOM", "N.M">>, <<"CB", "DOM", "A.M">>,
      <<"BWSO", "DOM", "N.M">>, <<"BWSO", "DOM", "A.M">>,
      <<"SOC", "DOM", "N.M">>, <<"SOC", "DOM", "A.M">>,
      <<"SIPO", "DOM", "N.M">>, <<"SIPO", "DOM", "A.M">>,
      <<"TF", "DOM", "N.M">>, <<"TF", "DOM", "A.M">>,
      <<"SNIPO", "OVR", "N.M">>, <<"SNIPO", "OVR", "A.M">>,
      <<"CB", "OVR", "N.M">>, <<"CB", "OVR", "A.M">>,
      <<"BWSO", "OVR", "N.M">>, <<"BWSO", "OVR", "A.M">>,
      <<"SIPO", "OVR", "N.M">>, <<"SIPO", "OVR", "A.M">>,
      <<"TF", "OVR", "N.M">>, <<"TF", "OVR", "A.M">>,
      <<"SNIPO", "TTL", "N.M">>, <<"SNIPO", "TTL", "A.M">>,
      <<"CB", "TTL", "N.M">>, <<"CB", "TTL", "A.M">>,
      <<"BWSO", "TTL", "N.M">>, <<"BWSO", "TTL", "A.M">>,
      <<"SOC", "TTL", "N.M">>, <<"SOC", "TTL", "A.M">>,
      <<"SIPO", "TTL", "N.M">>, <<"SIPO", "TTL", "A.M">>,
      <<"TF", "TTL", "N.M">>, <<"TF", "TTL", "A.M">>,
      <<"L10B", "SZ", "N.M">>, <<"L50B", "SZ", "N.M">>,
      <<"L100B", "SZ", "N.M">>, <<"M100B", "SZ", "N.M">>,
      <<"TTL", "SZ", "N.M">>, <<"SF", "MRKT", "N.M">>,
      <<"SF", "MRKT", "A.M">>, <<"EURL", "MRKT", "N.M">>,
      <<"EURL", "MRKT", "A.M">>, <<"OTH", "MRKT", "N.M">>,
      <<"OTH", "MRKT", "A.M">>, <<"SH", "REF", "N.M">>,
      <<"SH", "REF", "A.M">>, <<"TP", "REF", "N.M">>, <<"TP", "REF", "A.M">>,
      <<"SOC", "REF", "N.M">>, <<"SOC", "REF", "A.M">>,
      <<"NIPO", "SDDOM", "N.M">>, <<"NIPO", "SDDOM", "A.M">>,
      <<"IPO", "SDDOM", "N.M">>, <<"IPO", "SDDOM", "A.M">>,
      <<"TTL", "SDDOM", "N.M">>, <<"TTL", "SDDOM", "A.M">>,
      <<"NIPO", "SDOVR", "N.M">>, <<"NIPO", "SDOVR", "A.M">>,
      <<"IPO", "SDOVR", "N.M">>, <<"IPO", "SDOVR", "A.M">>,
      <<"TTL", "SDOVR", "N.M">>, <<"TTL", "SDOVR", "A.M">>,
      <<"NIPO", "SDTTL", "N.M">>, <<"NIPO", "SDTTL", "A.M">>,
      <<"IPO", "SDTTL", "N.M">>, <<"IPO", "SDTTL", "A.M">>,
      <<"TTL", "SDTTL", "N.M">>, <<"TTL", "SDTTL", "A.M">>,
      <<"L10B", "SDSZ", "N.M">>, <<"L50B", "SDSZ", "N.M">>,
      <<"L100B", "SDSZ", "N.M">>, <<"M100B", "SDSZ", "N.M">>,
      <<"TTL", "SDSZ", "N.M">>>>


\* header_row1 and header_row2 of the matrix; a description is named by
\* the field code it describes
None == <<"None">>

header_row1 == <<None>> \o target_columns

header_row2 ==
    <<None>> \o
    [i \in 1..Len(target_columns) |-> <<"description", target_columns[i]>>]

\* the static fallback tables of _setup_final_mappings
Fallback_domestic ==
    <<[col |-> 1, target |-> <<"SNIPO", "DOM", "N.M">>],
      [col |-> 3, target |-> <<"SNIPO", "DOM", "A.M">>],
      [col |-> 4, target |-> <<"CB", "DOM", "N.M">>],
      [col |-> 6, target |-> <<"CB", "DOM", "A.M">>],
      [col |-> 7, target |-> <<"BWSO", "DOM", "N.M">>],
      [col |-> 9, target |-> <<"BWSO", "DOM", "A.M">>],
      [col |-> 10, target |-> <<"SOC", "DOM", "N.M">>],
      [col |-> 12, target |-> <<"SOC", "DOM", "A.M">>],
      [col |-> 13, target |-> <<"SIPO", "DOM", "N.M">>],
      [col |-> 15, target |-> <<"SIPO", "DOM", "A.M">>],
      [col |-> 16, target |-> <<"TF", "DOM", "N.M">>],
      [col |-> 18, target |-> <<"TF", "DOM", "A.M">>]>>

Fallback_overseas ==
    <<[col |-> 1, target |-> <<"SNIPO", "OVR", "N.M">>],
      [col |-> 3, target |-> <<"SNIPO", "OVR", "A.M">>],
      [col |-> 4, target |-> <<"CB", "OVR", "N.M">>],
      [col |-> 6, target |-> <<"CB", "OVR", "A.M">>],
      [col |-> 7, target |-> <<"BWSO", "OVR", "N.M">>],
      [col |-> 9, target |-> <<"BWSO", "OVR", "A.M">>],
      [col |-> 10, target |-> <<"SIPO", "OVR", "N.M">>],
      [col |-> 12, target |-> <<"SIPO", "OVR", "A.M">>],
      [col |-> 13, target |-> <<"TF", "OVR", "N.M">>],
      [col |-> 15, target |-> <<"TF", "OVR", "A.M">>]>>

Fallback_total ==
    <<[col |-> 1, target |-> <<"SNIPO", "TTL", "N.M">>],
      [col |-> 3, target |-> <<"SNIPO", "TTL", "A.M">>],
      [col |-> 4, target |-> <<"CB", "TTL", "N.M">>],
      [col |-> 6, target |-> <<"CB", "TTL", "A.M">>],
      [col |-> 7, target |-> <<"BWSO", "TTL", "N.M">>],
      [col |-> 9, target |-> <<"BWSO", "TTL", "A.M">>],
      [col |-> 10, target |-> <<"SOC", "TTL", "N.M">>],
      [col |-> 12, target |-> <<"SOC", "TTL", "A.M">>],
      [col |-> 13, target |-> <<"SIPO", "TTL", "N.M">>],
      [col |-> 15, target |-> <<"SIPO", "TTL", "A.M">>],
      [col |-> 16, target |-> <<"TF", "TTL", "N.M">>],
      [col |-> 18, target |-> <<"TF", "TTL", "A.M">>]>>

Fallback_size_breakdown ==
    <<[col |-> 1, target |-> <<"L10B", "SZ", "N.M">>],
      [col |-> 2, target |-> <<"L50B", "SZ", "N.M">>],
      [col |-> 3, target |-> <<"L100B", "SZ", "N.M">>],
      [col |-> 4, target |-> <<"M100B", "SZ", "N.M">>],
      [col |-> 5, target |-> <<"TTL", "SZ", "N.M">>]>>

Fallback_market_breakdown ==
    <<[col |-> 1, target |-> <<"SF", "MRKT", "N.M">>],
      [col |-> 2, target |-> <<"SF", "MRKT", "A.M">>],
      [col |-> 3, target |-> <<"EURL", "MRKT", "N.M">>],
      [col |-> 4, target |-> <<"EURL", "MRKT", "A.M">>],
      [col |-> 5, target |-> <<"OTH", "MRKT", "N.M">>],
      [col |-> 6, target |-> <<"OTH", "MRKT", "A.M">>]>>

Fallback_reference ==
    <<[col |-> 1, target |-> <<"SH", "REF", "N.M">>],
      [col |-> 2, target |-> <<"SH", "REF", "A.M">>],
      [col |-> 3, target |-> <<"TP", "REF", "N.M">>],
      [col |-> 4, target |-> <<"TP", "REF", "A.M">>],
      [col |-> 5, target |-> <<"SOC", "REF", "N.M">>],
      [col |-> 6, target |-> <<"SOC", "REF", "A.M">>]>>

Fallback_secondary_domestic ==
    <<[col |-> 1, target |-> <<"NIPO", "SDDOM", "N.M">>],
      [col |-> 3, target |-> <<"NIPO", "SDDOM", "A.M">>],
      [col |-> 4, target |-> <<"IPO", "SDDOM", "N.M">>],
      [col |-> 6, target |-> <<"IPO", "SDDOM", "A.M">>],
      [col |-> 7, target |-> <<"TTL", "SDDOM", "N.M">>],
      [col |-> 9, target |-> <<"TTL", "SDDOM", "A.M">>]>>

Fallback_secondary_overseas ==
    <<[col |-> 1, target |-> <<"NIPO", "SDOVR", "N.M">>],
      [col |-> 3, target |-> <<"NIPO", "SDOVR", "A.M">>],
      [col |-> 4, target |-> <<"IPO", "SDOVR", "N.M">>],
      [col |-> 6, target |-> <<"IPO", "SDOVR", "A.M">>],
      [col |-> 7, target |-> <<"TTL", "SDOVR", "N.M">>],
      [col |-> 9, target |-> <<"TTL", "SDOVR", "A.M">>]>>

Fallback_secondary_total ==
    <<[col |-> 1, target |-> <<"NIPO", "SDTTL", "N.M">>],
      [col |-> 3, target |-> <<"NIPO", "SDTTL", "A.M">>],
      [col |-> 4, target |-> <<"IPO", "SDTTL", "N.M">>],
      [col |-> 6, target |-> <<"IPO", "SDTTL", "A.M">>],
      [col |-> 7, target |-> <<"TTL", "SDTTL", "N.M">>],
      [col |-> 9, target |-> <<"TTL", "SDTTL", "A.M">>]>>

Fallback_secondary_size ==
    <<[col |-> 1, target |-> <<"L10B", "SDSZ", "N.M">>],
      [col |-> 2, target |-> <<"L50B", "SDSZ", "N.M">>],
      [col |-> 3, target |-> <<"L100B", "SDSZ", "N.M">>],
      [col |-> 4, target |-> <<"M100B", "SDSZ", "N.M">>],
      [col |-> 5, target |-> <<"TTL", "SDSZ", "N.M">>]>>

StaticFallback ==
       "domestic" :> Fallback_domestic
    @@ "overseas" :> Fallback_overseas
    @@ "total" :> Fallback_total
    @@ "size_breakdown" :> Fallback_size_breakdown
    @@ "market_breakdown" :> Fallback_market_breakdown
    @@ "reference" :> Fallback_reference
    @@ "secondary_domestic" :> Fallback_secondary_domestic
    @@ "secondary_overseas" :> Fallback_secondary_overseas
    @@ "secondary_total" :> Fallback_secondary_total
    @@ "secondary_size" :> Fallback_secondary_size

\* self.sheet_mappings: the SheetCategory of each workbook position, from 0
sheet_mappings ==
    <<"domestic", "overseas", "total", "size_breakdown", "market_breakdown",
      "reference", "secondary_domestic", "secondary_overseas",
      "secondary_total", "secondary_size">>

SheetCategories == DOMAIN StaticFallback

\* the keys and the values of a ColumnMapping
Cols(m) == {m[i].col : i \in 1..Len(m)}

Targets(m) == {m[i].target : i \in 1..Len(m)}

\* m[col]
At(m, col) == (CHOOSE i \in 1..Len(m) : m[i].col = col)

Lookup(m, col) == m[At(m, col)].target

-----------------------------------------------------------------------------
(* RawGrid: rows and columns are numbered from 0 as in the code *)

NRows(g) == Len(g)

NCols(g) == IF g = <<>> THEN 0 ELSE Len(g[1])

Cell(g, r, c) == g[r + 1][c + 1]

SetMin(S) == CHOOSE x \in S : \A y \in S : x <= y

-----------------------------------------------------------------------------
(* Numeric clean-up *)

\* re.sub(r'[^\d]', '', s): the sign and the decimal point go as well
KeepDigits(c) == IsDigit(c)

\* re.sub(r'[^\d.-]', '', s)
KeepNumeric(c) == IsDigit(c) \/ c = "." \/ c = "-"

Clean(s) == SelectSeq(s, KeepNumeric)

IsDot(c) == c = "."

IsMinus(c) == c = "-"

Unsigned(clean) == IF clean # <<>> /\ clean[1] = "-" THEN Tail(clean) ELSE clean

\* does float(clean) succeed, for a text of digits, '.' and '-'
FloatOk(clean) ==
    LET u == Unsigned(clean)
    IN /\ SelectSeq(u, IsMinus) = <<>>
       /\ Len(SelectSeq(u, IsDot)) <= 1
       /\ SelectSeq(u, IsDigit) # <<>>

RECURSIVE IntegerPart(_)
IntegerPart(u) ==
    IF u = <<>> \/ u[1] = "." THEN <<>> ELSE <<u[1]>> \o IntegerPart(Tail(u))

\* float(clean); the fractional digits of the inputs are zeros
FloatVal(clean) ==
    LET v == DigitsToNat(IntegerPart(Unsigned(clean)))
    IN IF clean[1] = "-" THEN -v ELSE v

-----------------------------------------------------------------------------
(* Header Region Scanner *)

HeaderWindow == 15

\* ' '.join([str(v) if pd.notna(v) else '' for v in row])
RowText(row) ==
    Join([i \in 1..Len(row) |-> IF NotNa(row[i]) THEN CellStr(row[i]) ELSE <<>>])

\* the scan without the window: every row of the grid
ScanEveryRow(g) ==
    LET hits == {r \in 0..(NRows(g) - 1) :
                    AnyIn(number_indicators, RowText(g[r + 1]))}
    IN IF hits = {} THEN -1 ELSE SetMin(hits)

ScanHeaderRow(g) ==
    LET last == (IF HeaderWindow < NRows(g) THEN HeaderWindow ELSE NRows(g)) - 1
        hits == {r \in 0..last : AnyIn(number_indicators, RowText(g[r + 1]))}
    IN IF hits = {} THEN -1 ELSE SetMin(hits)

-----------------------------------------------------------------------------
(* Data Row Locator *)

LocatorMarker(c) ==
    NotNa(c) /\ (c.t = "date" \/ AnyIn(year_indicators, CellStr(c)))

FirstMarkerRow(g, h) ==
    LET hits == {r \in (h + 1)..(NRows(g) - 1) : LocatorMarker(Cell(g, r, 0))}
    IN IF hits = {} THEN h + 2 ELSE SetMin(hits)

NumericContent(c) ==
    \/ c.t = "num" /\ c.a # 0
    \/ /\ c.t = "str"
       /\ Clean(c.s) # <<>>
       /\ Clean(c.s) # <<"-">>
       /\ FloatOk(Clean(c.s))
       /\ FloatVal(Clean(c.s)) # 0

has_numeric_data(row) == \E i \in 2..Len(row) : NumericContent(row[i])

\* while data_start_row < len(df): ... data_start_row += 1
RECURSIVE VerifyDataRow(_, _)
VerifyDataRow(g, r) ==
    IF r >= NRows(g) THEN r
    ELSE IF has_numeric_data(g[r + 1]) THEN r
    ELSE VerifyDataRow(g, r + 1)

LocateDataRow(g, h) == VerifyDataRow(g, FirstMarkerRow(g, h))

-----------------------------------------------------------------------------
(* Column Classifier *)

HeaderLookback == 6

\* template.format(scope=scope) if '{scope}' in template else template
Format(t, scope) == IF t[2] = "{scope}" THEN <<t[1], scope, t[3]>> ELSE t

IsIndicator(p) == \E i \in 1..Len(all_indicators) : all_indicators[i] = p

CombinedHeader(g, h, col) ==
    LET lo == IF h - HeaderLookback > 0 THEN h - HeaderLookback ELSE 0
        cells == [i \in 1..(h - lo + 1) |-> Cell(g, lo + i - 1, col)]
        present == SelectSeq(cells, NotNa)
    IN Join([i \in 1..Len(present) |-> Strip(CellStr(present[i]))])

\* the category patterns the composite header contains
CategoryHits(reg, combined) ==
    {i \in 1..Len(reg) :
        Contains(reg[i].pattern, combined) /\ ~IsIndicator(reg[i].pattern)}

\* the first hit in insertion order
FirstCategory(reg, combined) ==
    SetMin(CategoryHits(reg, combined))

\* the first hit of sorted(..., key=len, reverse=True): the longest
\* pattern, the earliest inserted among equally long ones
BestCategory(reg, combined) ==
    LET hits == CategoryHits(reg, combined)
    IN CHOOSE i \in hits :
          \A j \in hits :
              \/ Len(reg[i].pattern) > Len(reg[j].pattern)
              \/ Len(reg[i].pattern) = Len(reg[j].pattern) /\ i <= j

RemoveDotMinus(c) == c # "." /\ c # "-"

\* str.isdigit()
AllDigits(s) == s # <<>> /\ \A i \in 1..Len(s) : IsDigit(s[i])

\* the data-row cell of a column, None past the grid
SampleVal(g, dsr, col) == IF dsr < NRows(g) THEN Cell(g, dsr, col) ELSE NaN

IsNumericSample(c) ==
    NotNa(c) /\ (c.t = "num" \/ AllDigits(SelectSeq(CellStr(c), RemoveDotMinus)))

\* One column of the scan.  st = [targets, pending, mapping]: the running
\* category's templates, the pending amount target, the mapping so far.
ClassifyColumn(g, h, dsr, reg, scope, size, col, st) ==
    LET combined == CombinedHeader(g, h, col)
        hits == CategoryHits(reg, combined)
        has_indicator == AnyIn(all_indicators, combined)
        is_data_column == IF combined # <<>>
                          THEN hits = {} /\ ~has_indicator ELSE TRUE
        sample == SampleVal(g, dsr, col)
        category_found == hits # {}
        targets == IF category_found
                   THEN LET e == reg[BestCategory(reg, combined)]
                        IN <<e.num, e.amt>>
                   ELSE st.targets
        is_number_col == AnyIn(number_indicators, combined)
        is_amount_col == AnyIn(amount_indicators, combined)
        put(t) == Append(st.mapping, [col |-> col, target |-> t])
    IN IF st.pending # NoTarget /\ is_data_column /\ IsNumericSample(sample)
       THEN [targets |-> st.targets, pending |-> NoTarget,
             mapping |-> put(st.pending)]
       ELSE IF targets[1] = NoTarget
            THEN [targets |-> targets, pending |-> NoTarget,
                  mapping |-> st.mapping]
       ELSE IF size
            THEN [targets |-> targets, pending |-> NoTarget,
                  mapping |-> IF category_found
                              THEN put(Format(targets[1], scope))
                              ELSE st.mapping]
       ELSE IF is_number_col
            THEN [targets |-> targets, pending |-> NoTarget,
                  mapping |-> put(Format(targets[1], scope))]
       ELSE IF is_amount_col /\ targets[2] # NoTarget
            THEN IF IsNumericSample(sample)
                 THEN [targets |-> targets, pending |-> NoTarget,
                       mapping |-> put(Format(targets[2], scope))]
                 ELSE [targets |-> targets,
                       pending |-> Format(targets[2], scope),
                       mapping |-> st.mapping]
       ELSE [targets |-> targets, pending |-> NoTarget,
             mapping |-> st.mapping]

\* the scan with the running category forgotten after every column
RECURSIVE ClassifyAfresh(_, _, _, _, _, _, _, _)
ClassifyAfresh(g, h, dsr, reg, scope, size, col, st) ==
    IF col >= NCols(g) THEN st.mapping
    ELSE ClassifyAfresh(g, h, dsr, reg, scope, size, col + 1,
                        [ClassifyColumn(g, h, dsr, reg, scope, size, col, st)
                            EXCEPT !.targets = <<NoTarget, NoTarget>>])

\* the scan with a pending amount target kept until a column takes it
RECURSIVE ClassifyKeeping(_, _, _, _, _, _, _, _)
ClassifyKeeping(g, h, dsr, reg, scope, size, col, st) ==
    IF col >= NCols(g) THEN st.mapping
    ELSE LET n == ClassifyColumn(g, h, dsr, reg, scope, size, col, st)
         IN ClassifyKeeping(g, h, dsr, reg, scope, size, col + 1,
                            IF n.pending = NoTarget
                               /\ Len(n.mapping) = Len(st.mapping)
                            THEN [n EXCEPT !.pending = st.pending]
                            ELSE n)

\* for col_idx in range(1, len(df.columns))
RECURSIVE ClassifyFrom(_, _, _, _, _, _, _, _)
ClassifyFrom(g, h, dsr, reg, scope, size, col, st) ==
    IF col >= NCols(g) THEN st.mapping
    ELSE ClassifyFrom(g, h, dsr, reg, scope, size, col + 1,
                      ClassifyColumn(g, h, dsr, reg, scope, size, col, st))

\* every sheet taken for a domestic one
DomesticScope(st) == "DOM"

ScopeOf(st) == IF st \in DOMAIN sheet_scope THEN sheet_scope[st] ELSE "DOM"

\* the scan without the special case of the size sheets
ClassifyAsOrdinary(g, h, dsr, reg, st) ==
    ClassifyFrom(g, h, dsr, reg, ScopeOf(st), FALSE, 1,
                 [targets |-> <<NoTarget, NoTarget>>, pending |-> NoTarget,
                  mapping |-> <<>>])

ClassifyColumns(g, h, dsr, reg, st) ==
    ClassifyFrom(g, h, dsr, reg, ScopeOf(st),
                 st \in {"size_breakdown", "secondary_size"}, 1,
                 [targets |-> <<NoTarget, NoTarget>>, pending |-> NoTarget,
                  mapping |-> <<>>])

-----------------------------------------------------------------------------
(* Fallback Merger / Quality Gate *)

\* self.final_mappings.get(sheet_type, {})
FallbackOf(fm, st) == IF st \in DOMAIN fm THEN fm[st] ELSE <<>>

\* merged.setdefault(col_idx, target): an entry already there is kept
KeepCol(m, col, target) ==
    IF col \in {m[i].col : i \in 1..Len(m)} THEN m
    ELSE Append(m, [col |-> col, target |-> target])

\* merged[col_idx] = target
PutCol(m, col, target) ==
    IF col \in Cols(m)
    THEN [i \in 1..Len(m) |->
            IF m[i].col = col THEN [col |-> col, target |-> target] ELSE m[i]]
    ELSE Append(m, [col |-> col, target |-> target])

RECURSIVE MergeInto(_, _)
MergeInto(merged, dyn) ==
    IF dyn = <<>> THEN merged
    ELSE MergeInto(PutCol(merged, dyn[1].col, dyn[1].target), Tail(dyn))

\* len(col_mapping) > expected_cols * 0.8
MoreThanThreshold(n, expected) == 5 * n > 4 * expected

\* len(col_mapping) >= expected_cols * 0.8
EnoughColumns(n, expected) == 5 * n >= 4 * expected

QualityGate(dyn, st, fm) ==
    LET fallback_mapping == FallbackOf(fm, st)
    IN IF dyn # <<>> /\ EnoughColumns(Len(dyn), Len(fallback_mapping))
       THEN dyn
       ELSE IF dyn # <<>> THEN MergeInto(fallback_mapping, dyn)
       ELSE fallback_mapping

\* self.final_mappings[sheet_type] = col_mapping: the detected mapping is
\* kept as the category's table
CachedTables(dyn, st, fm) ==
    IF dyn # <<>> /\ st \in DOMAIN fm THEN [fm EXCEPT ![st] = dyn] ELSE fm

\* merged = fallback_mapping.copy(): the merge writes to a copy, the
\* processor's tables stay as they are
TablesAfterGate(dyn, st, fm) == fm

\* _get_fallback_mapping: the fixed data-start row
FixedStartLate == 14

FixedStart == 13

\* one fixed data-start row for every sheet category
SameStart(st) == FixedStart

FallbackStart(st) ==
    IF st \in {"overseas", "market_breakdown"} THEN FixedStartLate ELSE FixedStart

-----------------------------------------------------------------------------
(* Monthly Extractor *)

BaseYear == 2025

\* the continue condition: pd.notna(first_cell) and (hasattr(first_cell,
\* 'year') or any(y in str(first_cell) for y in [...]))
has_date(row) ==
    NotNa(row[1]) /\ (row[1].t = "date" \/ AnyIn(extractor_years, CellStr(row[1])))

\* pd.notna(val) and val != 0 and str(val).strip() != ''
DataCell(c) ==
    /\ NotNa(c)
    /\ ~(c.t = "num" /\ c.a = 0)
    /\ Strip(CellStr(c)) # <<>>

has_data(row) == \E i \in 2..Len(row) : DataCell(row[i])

\* the row loop with continue in place of break
OutcomeWithoutBreak(g, r) ==
    IF r >= NRows(g) THEN "end"
    ELSE IF ~has_date(g[r + 1]) THEN "skip"
    ELSE IF ~has_data(g[r + 1]) THEN "skip"
    ELSE "emit"

\* what one pass of the row loop does with source row r
RowOutcome(g, r) ==
    IF r >= NRows(g) THEN "end"
    ELSE IF ~has_date(g[r + 1]) THEN "stop"
    ELSE IF ~has_data(g[r + 1]) THEN "skip"
    ELSE "emit"

\* numeric_value of one mapped cell; a failed conversion gives 0.0
CellValue(g, r, col) ==
    IF col < NCols(g)
    THEN LET c == Cell(g, r, col)
         IN CASE c.t = "num" -> c.a
              [] c.t = "str" ->
                    IF Clean(c.s) # <<>> /\ Clean(c.s) # <<"-">>
                    THEN IF FloatOk(Clean(c.s)) THEN FloatVal(Clean(c.s)) ELSE 0
                    ELSE 0
              [] OTHER -> 0
    ELSE 0

\* monthly_data without the fields whose column is past the grid
InRangeData(g, r, m) ==
    LET inside == {i \in 1..Len(m) : m[i].col < NCols(g)}
    IN [t \in {m[i].target : i \in inside} |->
           LET last == CHOOSE i \in inside :
                           /\ m[i].target = t
                           /\ \A j \in inside : m[j].target = t => j <= i
               c == Cell(g, r, m[last].col)
           IN IF c.t = "num" THEN c.a ELSE 0]

\* monthly_data: a later entry of the mapping overwrites an earlier one
\* with the same target
MonthlyData(g, r, m) ==
    [t \in Targets(m) |->
        LET last == CHOOSE i \in 1..Len(m) :
                        /\ m[i].target = t
                        /\ \A j \in 1..Len(m) : m[j].target = t => j <= i
        IN CellValue(g, r, m[last].col)]

RECURSIVE SkipSpaces(_, _)
SkipSpaces(s, j) == IF j <= Len(s) /\ s[j] = " " THEN SkipSpaces(s, j + 1) ELSE j

\* where the month digits start if (\d{4})[年/-]?\s*(\d{1,2}) matches at i,
\* 0 if it does not
MonthStart(s, i) ==
    IF i + 3 <= Len(s) /\ \A k \in i..(i + 3) : IsDigit(s[k])
    THEN LET j == IF i + 4 <= Len(s) /\ s[i + 4] \in DateSeparators
                  THEN i + 5 ELSE i + 4
             k == SkipSpaces(s, j)
         IN IF k <= Len(s) /\ IsDigit(s[k]) THEN k ELSE 0
    ELSE 0

\* re.search: the leftmost match, 0 if none
DateMatch(s) ==
    LET hits == {i \in 1..Len(s) : MonthStart(s, i) # 0}
    IN IF hits = {} THEN 0 ELSE SetMin(hits)

\* the label without the search for a year-month pattern
LabelWithoutPattern(first_cell, mon) ==
    IF NotNa(first_cell) /\ first_cell.t = "date"
    THEN Label(first_cell.a, first_cell.b)
    ELSE Label(BaseYear, mon + 1)

MonthLabel(first_cell, mon) ==
    IF NotNa(first_cell)
    THEN IF first_cell.t = "date" THEN Label(first_cell.a, first_cell.b)
         ELSE LET s == CellStr(first_cell)
                  i == DateMatch(s)
              IN IF i # 0
                 THEN LET k == MonthStart(s, i)
                          last == IF k + 1 <= Len(s) /\ IsDigit(s[k + 1])
                                  THEN k + 1 ELSE k
                      IN Label(DigitsToNat(SubSeq(s, i, i + 3)),
                               DigitsToNat(SubSeq(s, k, last)))
                 ELSE Label(BaseYear, mon + 1)
    ELSE Label(BaseYear, mon + 1)

\* d[k] = v
Put(d, k, v) == [x \in DOMAIN d \cup {k} |-> IF x = k THEN v ELSE d[x]]

EmptyDict == [x \in {} |-> 0]

\* _detect_columns_dynamically as a whole: <<data start row, mapping>>
DetectColumns(g, st, reg, fm) ==
    LET h == ScanHeaderRow(g)
    IN IF h = -1 THEN <<FallbackStart(st), FallbackOf(fm, st)>>
       ELSE LET dsr == LocateDataRow(g, h)
            IN <<dsr, QualityGate(ClassifyColumns(g, h, dsr, reg, st), st, fm)>>

\* the tables if the fallback table handed out as the mapping were emptied
\* by its user
TablesWithoutFallback(g, st, reg, fm) ==
    IF ScanHeaderRow(g) = -1 /\ st \in DOMAIN fm
    THEN [fm EXCEPT ![st] = <<>>] ELSE fm

\* self.final_mappings after _detect_columns_dynamically
TablesAfterDetect(g, st, reg, fm) ==
    LET h == ScanHeaderRow(g)
    IN IF h = -1 THEN fm
       ELSE TablesAfterGate(ClassifyColumns(g, h, LocateDataRow(g, h), reg, st),
                            st, fm)

\* the row loop of process_sheet from counter mon on
RECURSIVE ExtractRows(_, _, _, _, _)
ExtractRows(g, start, m, mon, dd) ==
    LET o == RowOutcome(g, start + mon)
    IN IF o \in {"end", "stop"} THEN dd
       ELSE IF o = "skip" THEN ExtractRows(g, start, m, mon + 1, dd)
       ELSE ExtractRows(g, start, m, mon + 1,
                        Put(dd, MonthLabel(Cell(g, start + mon, 0), mon),
                            MonthlyData(g, start + mon, m)))

\* process_sheet as a whole: the MonthlyRecord of a sheet
ProcessSheet(g, st, reg, fm) ==
    LET d == DetectColumns(g, st, reg, fm)
    IN IF d[2] = <<>> THEN EmptyDict
       ELSE ExtractRows(g, d[1], d[2], 0, EmptyDict)

-----------------------------------------------------------------------------
(* Cross-Sheet Aggregator *)

\* the code point of a character of a period label
Ord(c) == IF c = "-" THEN 45 ELSE 48 + DigitVal(c)

\* a < b as Python compares strings
RECURSIVE LexLess(_, _)
LexLess(a, b) ==
    IF b = <<>> THEN FALSE
    ELSE IF a = <<>> THEN TRUE
    ELSE IF a[1] = b[1] THEN LexLess(Tail(a), Tail(b))
    ELSE Ord(a[1]) < Ord(b[1])

\* all_months
AllMonths(ad) == UNION {DOMAIN ad[c] : c \in DOMAIN ad}

\* the months in descending order
RECURSIVE DescendingMonths(_)
DescendingMonths(S) ==
    IF S = {} THEN <<>>
    ELSE LET greatest == CHOOSE x \in S : \A y \in S \ {x} : LexLess(y, x)
         IN <<greatest>> \o DescendingMonths(S \ {greatest})

\* sorted(list(all_months))
RECURSIVE SortedMonths(_)
SortedMonths(S) ==
    IF S = {} THEN <<>>
    ELSE LET least == CHOOSE x \in S : \A y \in S \ {x} : LexLess(x, y)
         IN <<least>> \o SortedMonths(S \ {least})

\* col_value: the sum over the sheets that report the field for the month
RECURSIVE SumOver(_, _, _, _)
SumOver(ad, cats, date_key, target_col) ==
    IF cats = {} THEN 0
    ELSE LET c == CHOOSE x \in cats : TRUE
             v == IF date_key \in DOMAIN ad[c]
                     /\ target_col \in DOMAIN ad[c][date_key]
                  THEN ad[c][date_key][target_col] ELSE 0
         IN v + SumOver(ad, cats \ {c}, date_key, target_col)

\* col_value = ... in place of col_value += ...: one reporting sheet's value
LastValue(ad, date_key, target_col) ==
    LET reporting == {c \in DOMAIN ad :
                         /\ date_key \in DOMAIN ad[c]
                         /\ target_col \in DOMAIN ad[c][date_key]}
    IN IF reporting = {} THEN 0
       ELSE ad[CHOOSE c \in reporting : TRUE][date_key][target_col]

ColValue(ad, date_key, target_col) ==
    SumOver(ad, DOMAIN ad, date_key, target_col)

\* the fields of a month that are no target column, in a fixed order
RECURSIVE SetToSeq(_)
SetToSeq(S) ==
    IF S = {} THEN <<>>
    ELSE LET x == CHOOSE y \in S : TRUE IN <<x>> \o SetToSeq(S \ {x})

ExtraFields(ad, date_key) ==
    SetToSeq(UNION {DOMAIN ad[c][date_key] :
                       c \in {x \in DOMAIN ad : date_key \in DOMAIN ad[x]}}
             \ {target_columns[i] : i \in 1..Len(target_columns)})

\* a row with one value per reported field, target column or not
RowOfReportedFields(ad, date_key) ==
    LET extra == ExtraFields(ad, date_key)
    IN <<date_key>> \o
       [i \in 1..Len(target_columns) |->
           SumOver(ad, DOMAIN ad, date_key, target_columns[i])] \o
       [i \in 1..Len(extra) |-> SumOver(ad, DOMAIN ad, date_key, extra[i])]

\* row_data
RowData(ad, date_key) ==
    <<date_key>> \o
    [i \in 1..Len(target_columns) |-> ColValue(ad, date_key, target_columns[i])]

\* every month kept
KeepEveryRow(row) == TRUE

\* row_values != 0
KeepRow(row) == \E i \in 2..Len(row) : row[i] # 0

\* data_rows
DataRows(ad) ==
    LET months == SortedMonths(AllMonths(ad))
    IN SelectSeq([i \in 1..Len(months) |-> RowData(ad, months[i])], KeepRow)

\* all_rows of create_output_dataframe: the two header rows, then the data
\* rows
CreateOutput(ad) == <<header_row1, header_row2>> \o DataRows(ad)

-----------------------------------------------------------------------------
(* Sheets given to process_sheet *)

MaxDataRows == 3

MaxPaddedRows == 2

GateCols == 4

SheetTypes == {"size_breakdown", "overseas", "reference"}

\* first cells: empty, a datetime, a text date
MarkerCells == {NaN, Date(2025, 1), Str(<<"2", "0", "2", "5", "/", "2">>)}

\* value cells: empty, zero, a number, the text "0"
ValueCells == {NaN, Num(0), Num(5), Str(<<"0">>)}

DataRowChoices == {<<c0, c1>> : c0 \in MarkerCells, c1 \in ValueCells}

RowsUpTo(n) == UNION {[1..k -> DataRowChoices] : k \in 1..n}

\* a category row and an indicator row over one value column, then data
ExtractGrids ==
    {<<<<NaN, Str(TxtTotal)>>, <<NaN, Str(TxtNumber)>>>> \o rows :
        rows \in RowsUpTo(MaxDataRows)}

\* no header row at all: blank rows down to the fixed data-start row
PaddedGrids ==
    {[i \in 1..FixedStart |-> <<NaN, NaN>>] \o rows :
        rows \in RowsUpTo(MaxPaddedRows)}

CategoryCells == {NaN, Str(TxtTotal), Str(TxtNonIPO)}

IndicatorCells == {NaN, Str(TxtNumber)}

\* a category row, an indicator row and one data row over GateCols columns
GateGrids ==
    {<<<<NaN>> \o cats, <<NaN>> \o inds,
       <<Date(2025, 1)>> \o [i \in 1..GateCols |-> Num(1)]>> :
        cats \in [1..GateCols -> CategoryCells],
        inds \in [1..GateCols -> IndicatorCells]}

SheetGrids == PaddedGrids \cup GateGrids

\* value cells of every kind: empty, numbers, a datetime, and the texts
\* "1,234", "-7", "-", "1.2.3" and "n/a"
CellThousands == Str(<<"1", ",", "2", "3", "4">>)

CellNegative == Str(<<"-", "7">>)

CellDash == Str(<<"-">>)

CellDotted == Str(<<"1", ".", "2", ".", "3">>)

CellWord == Str(<<"n", "/", "a">>)

RichCells ==
    {NaN, Num(0), Num(-3), Date(2025, 1), CellThousands, CellNegative,
     CellDash, CellDotted, CellWord}

\* a category row, an indicator row and one month of two value cells
CellGrids ==
    {<<<<NaN, Str(TxtTotal), NaN>>, <<NaN, Str(TxtNumber), NaN>>,
       <<Date(2025, 1), c1, c2>>>> : c1 \in RichCells, c2 \in RichCells}

\* first cells of every kind of period marker: a datetime, "2025" + the year sign + " 3",
\* "202511" and "FY2025"
MarkerDate == Date(2024, 12)

MarkerKanji == Str(<<"2", "0", "2", "5", "u5E74", " ", "3">>)

MarkerPacked == Str(<<"2", "0", "2", "5", "1", "1">>)

MarkerFiscal == Str(<<"F", "Y", "2", "0", "2", "5">>)

LabelRowChoices ==
    {<<c0, c1>> : c0 \in {MarkerDate, MarkerKanji, MarkerPacked, MarkerFiscal},
                  c1 \in {Num(0), Num(5)}}

\* a category row, an indicator row and rows of such markers
LabelGrids ==
    {<<<<NaN, Str(TxtTotal)>>, <<NaN, Str(TxtNumber)>>>> \o rows :
        rows \in UNION {[1..k -> LabelRowChoices] : k \in 1..MaxDataRows}}

\* first cells naming a year as text
Marker2026 == Str(<<"2", "0", "2", "6", "/", "1">>)

Marker2025 == Str(<<"2", "0", "2", "5", "/", "2">>)

\* a category row, an indicator row and two rows led by a year or a date
YearGrids ==
    {<<<<NaN, Str(TxtTotal)>>, <<NaN, Str(TxtNumber)>>, <<a, Num(5)>>,
       <<b, Num(7)>>>> :
        a \in {Marker2026, Marker2025, Date(2025, 1)},
        b \in {Marker2026, Marker2025, NaN}}

\* first cells whose text names no month of the year
Marker13 == Str(<<"2", "0", "2", "5", "/", "1", "3">>)

Marker00 == Str(<<"2", "0", "2", "5", "/", "0">>)

\* rows of one sheet beyond the months of a year
LongRun == 13

\* a category row, an indicator row and a row led by such a text, or
\* LongRun rows led by a text without year and month
MonthGrids ==
    {<<<<NaN, Str(TxtTotal)>>, <<NaN, Str(TxtNumber)>>, <<a, Num(5)>>>> :
        a \in {Marker13, Marker00}}
    \cup {<<<<NaN, Str(TxtTotal)>>, <<NaN, Str(TxtNumber)>>>>
            \o [i \in 1..LongRun |-> <<MarkerFiscal, Num(5)>>]}

\* rows around the end of the scan window: empty, or holding a number
\* indicator in either language, or an amount indicator
WindowRows ==
    {<<NaN, NaN>>, <<NaN, Str(TxtNumber)>>, <<Str(TxtKensu), NaN>>,
     <<NaN, Str(TxtAmount)>>}

\* blank rows, then such rows at the last two indices of the window and at
\* the first index after it, then two months of data
WindowGrids ==
    {[i \in 1..(HeaderWindow - 2) |-> <<NaN, NaN>>] \o rows
     \o <<<<Date(2025, 1), Num(5)>>, <<Date(2025, 1), Num(5)>>>> :
        rows \in [1..3 -> WindowRows]}

\* a category row and an indicator row with number and amount columns over
\* three value columns, then one data row
ContextGrids ==
    {<<<<NaN>> \o cats, <<NaN>> \o inds,
       <<Date(2025, 1), Num(1), Num(1), Num(1)>>>> :
        cats \in [1..3 -> {NaN, Str(TxtNonIPO), Str(TxtTotal)}],
        inds \in [1..3 -> {NaN, Str(TxtNumber), Str(TxtAmount)}]}

\* a header text that is neither a category nor an indicator
CellUnit == Str(<<"u", "n", "i", "t">>)

\* a column: its category cell, its indicator cell, its data cell
CarryColumns ==
    {<<c, i, d>> : c \in {NaN, Str(TxtTotal), CellUnit},
                   i \in {NaN, Str(TxtNumber), Str(TxtAmount)},
                   d \in {NaN, Num(1)}}

\* "Non IPO" over a number column, an amount column with or without a
\* value in the data row, and two columns of every kind after it
CarryGrids ==
    {<<<<NaN, Str(TxtNonIPO), NaN, x[1], y[1]>>,
       <<NaN, Str(TxtNumber), Str(TxtAmount), x[2], y[2]>>,
       <<Date(2025, 1), Num(1), d, x[3], y[3]>>>> :
        d \in {NaN, Num(1), CellThousands},
        x \in CarryColumns, y \in CarryColumns}

\* two rows of category texts over one number column
PriorityGrids ==
    {<<<<NaN, a>>, <<NaN, b>>, <<NaN, Str(TxtNumber)>>,
       <<Date(2025, 1), Num(1)>>>> :
        a \in {NaN, Str(TxtTotal), Str(TxtNonIPO), Str(TxtIPO), Str(TxtCB)},
        b \in {NaN, Str(TxtTotal), Str(TxtNonIPO), Str(TxtIPO), Str(TxtCB)}}

\* a size category over a number column, then two columns with a size
\* category, a category without number field, "Total" or none, under a
\* number indicator, an amount indicator or none
SizeGrids ==
    {<<<<NaN, Str(TxtLess10), a[1], b[1]>>,
       <<NaN, Str(TxtNumber), a[2], b[2]>>,
       <<Date(2025, 1), Num(1), Num(1), Num(1)>>>> :
        a, b \in {NaN, Str(TxtLess10), Str(TxtMore100), Str(TxtTotal)}
                 \X {NaN, Str(TxtNumber), Str(TxtAmount)}}

\* the sheets and the categories they are processed as
SheetInputs ==
    (SheetGrids \X SheetTypes)
    \cup (ExtractGrids \X {"size_breakdown"})
    \cup (CellGrids \X {"size_breakdown", "reference"})
    \cup (LabelGrids \X {"size_breakdown"})
    \cup (WindowGrids \X {"size_breakdown", "overseas"})
    \cup (ContextGrids \X {"overseas"})
    \cup (CarryGrids \X {"overseas"})
    \cup (PriorityGrids \X {"overseas", "size_breakdown"})
    \cup (SizeGrids \X {"size_breakdown", "secondary_size"})
    \cup (YearGrids \X {"size_breakdown"})
    \cup (MonthGrids \X {"size_breakdown"})

-----------------------------------------------------------------------------
(* process_sheet on one sheet, by a processor built with or without the    *)
(* configuration document                                                  *)

InitSheet ==
    /\ \E input \in SheetInputs :
          /\ df = input[1]
          /\ sheet_type = input[2]
    /\ pc = "new"
    /\ config_exists = FALSE
    /\ attrs = {}
    /\ header_row = -1
    /\ data_start_row = -1
    /\ col_mapping = <<>>
    /\ data_row_start = -1
    /\ mapping = <<>>
    /\ month = 0
    /\ data_dict = EmptyDict
    /\ emitted = <<>>
    /\ all_data = EmptyDict
    /\ all_rows = <<>>
    /\ final_mappings = StaticFallback
    /\ workbook = <<>>
    /\ sheet_index = 0
    /\ sheets_processed = 0
    /\ visited = <<>>
    /\ results = <<>>
    /\ workflow_state = NewWorkflowState
    /\ flow = NewFlow(<<>>)

\* FinalJSDAProcessor.__init__
Construct ==
    /\ pc = "new"
    /\ \E cfg \in BOOLEAN :
          /\ config_exists' = cfg
          /\ attrs' = ProcessorAttrs(cfg)
    /\ pc' = "detect"
    /\ UNCHANGED <<df, sheet_type, header_row, data_start_row, col_mapping,
                   data_row_start, mapping, month, data_dict, emitted,
                   all_data, all_rows, final_mappings>>
    /\ UNCHANGED file_vars
    /\ UNCHANGED flow_vars

\* self.column_indicators is read first: AttributeError when undefined
DetectRaises ==
    /\ pc = "detect"
    /\ "column_indicators" \notin attrs
    /\ pc' = "raised"
    /\ UNCHANGED <<config_exists, attrs, df, sheet_type, header_row,
                   data_start_row, col_mapping, data_row_start, mapping,
                   month, data_dict, emitted, all_data, all_rows,
                   final_mappings>>
    /\ UNCHANGED file_vars
    /\ UNCHANGED flow_vars

\* Header Region Scanner finds nothing: return self._get_fallback_mapping
HeaderNotFound ==
    /\ pc = "detect"
    /\ "column_indicators" \in attrs
    /\ ScanHeaderRow(df) = -1
    /\ header_row' = -1
    /\ data_row_start' = FallbackStart(sheet_type)
    /\ mapping' = FallbackOf(final_mappings, sheet_type)
    /\ pc' = IF mapping' = <<>> THEN "returned" ELSE "rows"
    /\ UNCHANGED <<config_exists, attrs, df, sheet_type, data_start_row,
                   col_mapping, month, data_dict, emitted, all_data,
                   all_rows, final_mappings>>
    /\ UNCHANGED file_vars
    /\ UNCHANGED flow_vars

HeaderFound ==
    /\ pc = "detect"
    /\ "column_indicators" \in attrs
    /\ ScanHeaderRow(df) # -1
    /\ header_row' = ScanHeaderRow(df)
    /\ pc' = "locate"
    /\ UNCHANGED <<config_exists, attrs, df, sheet_type, data_start_row,
                   col_mapping, data_row_start, mapping, month, data_dict,
                   emitted, all_data, all_rows, final_mappings>>
    /\ UNCHANGED file_vars
    /\ UNCHANGED flow_vars

LocateRow ==
    /\ pc = "locate"
    /\ data_start_row' = LocateDataRow(df, header_row)
    /\ pc' = "classify"
    /\ UNCHANGED <<config_exists, attrs, df, sheet_type, header_row,
                   col_mapping, data_row_start, mapping, month, data_dict,
                   emitted, all_data, all_rows, final_mappings>>
    /\ UNCHANGED file_vars
    /\ UNCHANGED flow_vars

Classify ==
    /\ pc = "classify"
    /\ col_mapping' = ClassifyColumns(df, header_row, data_start_row,
                                      header_to_target(config_exists),
                                      sheet_type)
    /\ pc' = "gate"
    /\ UNCHANGED <<config_exists, attrs, df, sheet_type, header_row,
                   data_start_row, data_row_start, mapping, month, data_dict,
                   emitted, all_data, all_rows, final_mappings>>
    /\ UNCHANGED file_vars
    /\ UNCHANGED flow_vars

Gate ==
    /\ pc = "gate"
    /\ mapping' = QualityGate(col_mapping, sheet_type, final_mappings)
    /\ final_mappings' =
          TablesAfterGate(col_mapping, sheet_type, final_mappings)
    /\ data_row_start' = data_start_row
    /\ pc' = IF mapping' = <<>> THEN "returned" ELSE "rows"
    /\ UNCHANGED <<config_exists, attrs, df, sheet_type, header_row,
                   data_start_row, col_mapping, month, data_dict, emitted,
                   all_data, all_rows>>
    /\ UNCHANGED file_vars
    /\ UNCHANGED flow_vars

\* the row loop, one pass at a time
EndOfGrid ==
    /\ pc = "rows"
    /\ RowOutcome(df, data_row_start + month) = "end"
    /\ pc' = "returned"
    /\ UNCHANGED <<config_exists, attrs, df, sheet_type, header_row,
                   data_start_row, col_mapping, data_row_start, mapping,
                   month, data_dict, emitted, all_data, all_rows,
                   final_mappings>>
    /\ UNCHANGED file_vars
    /\ UNCHANGED flow_vars

StopRows ==
    /\ pc = "rows"
    /\ RowOutcome(df, data_row_start + month) = "stop"
    /\ pc' = "returned"
    /\ UNCHANGED <<config_exists, attrs, df, sheet_type, header_row,
                   data_start_row, col_mapping, data_row_start, mapping,
                   month, data_dict, emitted, all_data, all_rows,
                   final_mappings>>
    /\ UNCHANGED file_vars
    /\ UNCHANGED flow_vars

SkipRow ==
    /\ pc = "rows"
    /\ RowOutcome(df, data_row_start + month) = "skip"
    /\ month' = month + 1
    /\ UNCHANGED <<config_exists, attrs, df, sheet_type, pc, header_row,
                   data_start_row, col_mapping, data_row_start, mapping,
                   data_dict, emitted, all_data, all_rows, final_mappings>>
    /\ UNCHANGED file_vars
    /\ UNCHANGED flow_vars

ExtractRow ==
    /\ pc = "rows"
    /\ RowOutcome(df, data_row_start + month) = "emit"
    /\ LET data_row == data_row_start + month
       IN /\ data_dict' = Put(data_dict,
                              MonthLabel(Cell(df, data_row, 0), month),
                              MonthlyData(df, data_row, mapping))
          /\ emitted' = Append(emitted, data_row)
    /\ month' = month + 1
    /\ UNCHANGED <<config_exists, attrs, df, sheet_type, pc, header_row,
                   data_start_row, col_mapping, data_row_start, mapping,
                   all_data, all_rows, final_mappings>>
    /\ UNCHANGED file_vars
    /\ UNCHANGED flow_vars

NextSheet ==
    \/ Construct
    \/ DetectRaises
    \/ HeaderNotFound
    \/ HeaderFound
    \/ LocateRow
    \/ Classify
    \/ Gate
    \/ EndOfGrid
    \/ StopRows
    \/ SkipRow
    \/ ExtractRow

SpecSheet == InitSheet /\ [][NextSheet]_vars

-----------------------------------------------------------------------------
(* process_sheet with the verification loop of the Data Row Locator taken  *)
(* one pass at a time.  The code is sequential: a pass of a loop that can  *)
(* be taken is taken.                                                      *)

\* rows with or without marker, with or without a value
LoopRowChoices ==
    {<<Date(2025, 1), Num(5)>>, <<Date(2025, 1), Num(0)>>, <<NaN, Num(5)>>,
     <<NaN, NaN>>}

\* a category row, an indicator row and such rows; or no header row at all
LoopGrids ==
    {<<<<NaN, Str(TxtTotal)>>, <<NaN, Str(TxtNumber)>>>> \o rows :
        rows \in UNION {[1..k -> LoopRowChoices] : k \in 1..(MaxDataRows + 1)}}
    \cup {[i \in 1..FixedStart |-> <<NaN, NaN>>] \o rows :
             rows \in UNION {[1..k -> LoopRowChoices] : k \in 1..MaxPaddedRows}}

InitLive ==
    /\ df \in LoopGrids
    /\ sheet_type \in {"size_breakdown", "reference"}
    /\ pc = "new"
    /\ config_exists = FALSE
    /\ attrs = {}
    /\ header_row = -1
    /\ data_start_row = -1
    /\ col_mapping = <<>>
    /\ data_row_start = -1
    /\ mapping = <<>>
    /\ month = 0
    /\ data_dict = EmptyDict
    /\ emitted = <<>>
    /\ all_data = EmptyDict
    /\ all_rows = <<>>
    /\ final_mappings = StaticFallback
    /\ workbook = <<>>
    /\ sheet_index = 0
    /\ sheets_processed = 0
    /\ visited = <<>>
    /\ results = <<>>
    /\ workflow_state = NewWorkflowState
    /\ flow = NewFlow(<<>>)

\* the loop that does not move on
Stay(r) == r

\* data_start_row += 1
Advance(r) == r + 1

\* the first row with a marker below the header row, header_row + 2 if none
FindCandidate ==
    /\ pc = "locate"
    /\ data_start_row' = FirstMarkerRow(df, header_row)
    /\ pc' = "verify"
    /\ UNCHANGED <<config_exists, attrs, df, sheet_type, header_row,
                   col_mapping, data_row_start, mapping, month, data_dict,
                   emitted, all_data, all_rows, final_mappings>>
    /\ UNCHANGED file_vars
    /\ UNCHANGED flow_vars

\* while data_start_row < len(df): no numeric data in the row, go on
VerifyAdvance ==
    /\ pc = "verify"
    /\ data_start_row < NRows(df)
    /\ ~has_numeric_data(df[data_start_row + 1])
    /\ data_start_row' = Advance(data_start_row)
    /\ UNCHANGED <<config_exists, attrs, df, sheet_type, pc, header_row,
                   col_mapping, data_row_start, mapping, month, data_dict,
                   emitted, all_data, all_rows, final_mappings>>
    /\ UNCHANGED file_vars
    /\ UNCHANGED flow_vars

\* the loop ends: the grid is exhausted or the row has numeric data
VerifyDone ==
    /\ pc = "verify"
    /\ IF data_start_row < NRows(df)
          THEN has_numeric_data(df[data_start_row + 1])
          ELSE TRUE
    /\ pc' = "classify"
    /\ UNCHANGED <<config_exists, attrs, df, sheet_type, header_row,
                   data_start_row, col_mapping, data_row_start, mapping,
                   month, data_dict, emitted, all_data, all_rows,
                   final_mappings>>
    /\ UNCHANGED file_vars
    /\ UNCHANGED flow_vars

NextLive ==
    \/ Construct
    \/ DetectRaises
    \/ HeaderNotFound
    \/ HeaderFound
    \/ FindCandidate
    \/ VerifyAdvance
    \/ VerifyDone
    \/ Classify
    \/ Gate
    \/ EndOfGrid
    \/ StopRows
    \/ SkipRow
    \/ ExtractRow

\* a pass of the verification loop
VerifyLoop == VerifyAdvance \/ VerifyDone

\* a pass of the row loop
RowLoop == EndOfGrid \/ StopRows \/ SkipRow \/ ExtractRow

LiveSheet ==
    InitLive /\ [][NextLive]_vars /\ WF_vars(VerifyLoop) /\ WF_vars(RowLoop)

-----------------------------------------------------------------------------
(* create_output_dataframe on the MonthlyRecords of two sheet categories   *)

MaxEntries == 3

AggCategories == {"domestic", "overseas"}

AggLabels == {Label(2024, 12), Label(2025, 2), Label(2025, 10)}

\* a field code that is no target field
OtherField == <<"TTL", "OVR", "N.M">>

AggFields == {target_columns[1], target_columns[2], OtherField}

\* both sheets report the first target field; the second sheet also reports
\* another target field and the field that is no target field
FieldsOf(c) == IF c = "domestic" THEN {target_columns[1]} ELSE AggFields

AggValues == {-1, 0, 1}

\* a field that is no target field is reported with a non-zero value
ValuesOf(f) == IF f = OtherField THEN {1} ELSE AggValues

\* the values the sheets report
Entries(ad) ==
    {e \in AggCategories \X AggLabels \X AggFields :
        /\ e[1] \in DOMAIN ad
        /\ e[2] \in DOMAIN ad[e[1]]
        /\ e[3] \in DOMAIN ad[e[1]][e[2]]}

InitAgg ==
    /\ all_data = EmptyDict
    /\ all_rows = <<>>
    /\ final_mappings = StaticFallback
    /\ pc = "collect"
    /\ df = <<>>
    /\ sheet_type = ""
    /\ config_exists = TRUE
    /\ attrs = ProcessorAttrs(TRUE)
    /\ header_row = -1
    /\ data_start_row = -1
    /\ col_mapping = <<>>
    /\ data_row_start = -1
    /\ mapping = <<>>
    /\ month = 0
    /\ data_dict = EmptyDict
    /\ emitted = <<>>
    /\ workbook = <<>>
    /\ sheet_index = 0
    /\ sheets_processed = 0
    /\ visited = <<>>
    /\ results = <<>>
    /\ workflow_state = NewWorkflowState
    /\ flow = NewFlow(<<>>)

\* a sheet category reports value v for field f in period l
Report ==
    /\ pc = "collect"
    /\ Cardinality(Entries(all_data)) < MaxEntries
    /\ \E c \in AggCategories, l \in AggLabels : \E f \in FieldsOf(c) :
       \E v \in ValuesOf(f) :
          /\ <<c, l, f>> \notin Entries(all_data)
          /\ LET record == IF c \in DOMAIN all_data THEN all_data[c] ELSE EmptyDict
                 monthly == IF l \in DOMAIN record THEN record[l] ELSE EmptyDict
             IN all_data' = Put(all_data, c, Put(record, l, Put(monthly, f, v)))
    /\ UNCHANGED <<config_exists, attrs, df, sheet_type, pc, header_row,
                   data_start_row, col_mapping, data_row_start, mapping,
                   month, data_dict, emitted, all_rows, final_mappings>>
    /\ UNCHANGED file_vars
    /\ UNCHANGED flow_vars

Aggregate ==
    /\ pc = "collect"
    /\ all_rows' = CreateOutput(all_data)
    /\ pc' = "aggregated"
    /\ UNCHANGED <<config_exists, attrs, df, sheet_type, header_row,
                   data_start_row, col_mapping, data_row_start, mapping,
                   month, data_dict, emitted, all_data, final_mappings>>
    /\ UNCHANGED file_vars
    /\ UNCHANGED flow_vars

NextAgg == Report \/ Aggregate

SpecAgg == InitAgg /\ [][NextAgg]_vars

-----------------------------------------------------------------------------
(* process_excel_file on a readable workbook, called twice on the same     *)
(* processor                                                               *)

SheetLimit == 10

MaxExtraSheets == 1

MaxBusySheets == 2

\* a sheet of the workbook: pd.read_excel gives its grid or raises
Readable(g) == [readable |-> TRUE, grid |-> g, name |-> <<"S">>]

Unreadable == [readable |-> FALSE, grid |-> <<>>, name |-> <<"S">>]

\* the sheet name sheet_mappings lists for 'domestic', position 0
JpDomestic == <<"u52DF", "u96C6", "u56FD", "u5185">>

\* sheet_names[sheet_index] of a sheet is n
Named(sh, n) == [sh EXCEPT !.name = n]

\* a sheet with nothing in it
BlankSheet == Readable(<<>>)

\* a category row, an indicator row and one month of three values
DataSheet ==
    Readable(<<<<NaN, Str(TxtTotal), NaN, NaN>>,
               <<NaN, Str(TxtNumber), NaN, NaN>>,
               <<Date(2025, 1), Num(5), Num(7), Num(9)>>>>)

\* no header row: blank rows down to the fixed data-start row, then one
\* month
FallbackSheet ==
    Readable([i \in 1..FixedStart |-> <<NaN, NaN>>]
             \o <<<<Date(2025, 1), Num(5)>>>>)

BusySheets ==
    {DataSheet, Named(DataSheet, JpDomestic), FallbackSheet, Unreadable}

\* where a workbook may hold a sheet that is not blank: the first sheet, the
\* fourth, the last one processed and the ones after it
BusyPositions == {1, 4} \cup (SheetLimit..(SheetLimit + MaxExtraSheets))

\* workbooks of about SheetLimit sheets, blank but for a few of them
Workbooks ==
    UNION {{[i \in 1..n |-> IF i \in DOMAIN busy THEN busy[i] ELSE BlankSheet] :
               busy \in UNION {[P -> BusySheets] :
                                  P \in {Q \in SUBSET (BusyPositions \cap 1..n) :
                                            Cardinality(Q) <= MaxBusySheets}}} :
           n \in (SheetLimit - 1)..(SheetLimit + MaxExtraSheets)}

\* range(min(10, len(sheet_names)))
SheetsToProcess(w) == IF Len(w) < SheetLimit THEN Len(w) ELSE SheetLimit

\* the sheet type bound to the position after this one
NextTypeAt(i) ==
    sheet_mappings[((i + 1) % Len(sheet_mappings)) + 1]

\* the sheet type of a workbook position, "" if sheet_mappings has none
SheetTypeAt(i) == IF i < Len(sheet_mappings) THEN sheet_mappings[i + 1] ELSE ""

\* one sheet or none gave a record
AtMostOneSheet(n) == n <= 1

\* sheets_processed == 0
NoUsableSheets(n) == n = 0

InitFile ==
    /\ workbook \in Workbooks
    /\ config_exists \in BOOLEAN
    /\ attrs = ProcessorAttrs(config_exists)
    /\ final_mappings = StaticFallback
    /\ pc = "file"
    /\ all_data = EmptyDict
    /\ sheets_processed = 0
    /\ sheet_index = 0
    /\ visited = <<>>
    /\ results = <<>>
    /\ workflow_state = NewWorkflowState
    /\ flow = NewFlow(<<>>)
    /\ all_rows = <<>>
    /\ df = <<>>
    /\ sheet_type = ""
    /\ header_row = -1
    /\ data_start_row = -1
    /\ col_mapping = <<>>
    /\ data_row_start = -1
    /\ mapping = <<>>
    /\ month = 0
    /\ data_dict = EmptyDict
    /\ emitted = <<>>

sheet_vars == <<config_exists, attrs, df, sheet_type, header_row,
                data_start_row, col_mapping, data_row_start, mapping, month,
                data_dict, emitted>>

InLoop == pc = "file" /\ sheet_index < SheetsToProcess(workbook)

\* pd.read_excel raises: except Exception ... continue
ReadFails ==
    /\ InLoop
    /\ ~workbook[sheet_index + 1].readable
    /\ sheet_index' = sheet_index + 1
    /\ UNCHANGED <<pc, all_data, all_rows, final_mappings, workbook,
                   sheets_processed, visited, results>>
    /\ UNCHANGED sheet_vars
    /\ UNCHANGED flow_vars

\* process_sheet raises: except Exception ... continue
SheetRaises ==
    /\ InLoop
    /\ workbook[sheet_index + 1].readable
    /\ SheetTypeAt(sheet_index) # ""
    /\ "column_indicators" \notin attrs
    /\ visited' = Append(visited, sheet_index)
    /\ sheet_index' = sheet_index + 1
    /\ UNCHANGED <<pc, all_data, all_rows, final_mappings, workbook,
                   sheets_processed, results>>
    /\ UNCHANGED sheet_vars
    /\ UNCHANGED flow_vars

\* process_sheet returns: the record is stored if it is not empty
SheetReturns ==
    /\ InLoop
    /\ workbook[sheet_index + 1].readable
    /\ SheetTypeAt(sheet_index) # ""
    /\ "column_indicators" \in attrs
    /\ LET g == workbook[sheet_index + 1].grid
           st == SheetTypeAt(sheet_index)
           reg == header_to_target(config_exists)
           sheet_data == ProcessSheet(g, st, reg, final_mappings)
       IN /\ final_mappings' = TablesAfterDetect(g, st, reg, final_mappings)
          /\ IF sheet_data # EmptyDict
             THEN /\ all_data' = Put(all_data, st, sheet_data)
                  /\ sheets_processed' = sheets_processed + 1
             ELSE UNCHANGED <<all_data, sheets_processed>>
    /\ visited' = Append(visited, sheet_index)
    /\ sheet_index' = sheet_index + 1
    /\ UNCHANGED <<pc, all_rows, workbook, results>>
    /\ UNCHANGED sheet_vars
    /\ UNCHANGED flow_vars

\* if sheets_processed == 0: return None
ReturnNone ==
    /\ pc = "file"
    /\ sheet_index = SheetsToProcess(workbook)
    /\ NoUsableSheets(sheets_processed)
    /\ results' = Append(results, <<>>)
    /\ pc' = "done"
    /\ UNCHANGED <<all_data, all_rows, final_mappings, workbook, sheet_index,
                   sheets_processed, visited>>
    /\ UNCHANGED sheet_vars
    /\ UNCHANGED flow_vars

\* return self.create_output_dataframe(all_data)
ReturnMatrix ==
    /\ pc = "file"
    /\ sheet_index = SheetsToProcess(workbook)
    /\ ~NoUsableSheets(sheets_processed)
    /\ all_rows' = CreateOutput(all_data)
    /\ results' = Append(results, all_rows')
    /\ pc' = "done"
    /\ UNCHANGED <<all_data, final_mappings, workbook, sheet_index,
                   sheets_processed, visited>>
    /\ UNCHANGED sheet_vars
    /\ UNCHANGED flow_vars

\* process_excel_file is called again on the same workbook
CallAgain ==
    /\ pc = "done"
    /\ Len(results) = 1
    /\ all_data' = EmptyDict
    /\ sheets_processed' = 0
    /\ sheet_index' = 0
    /\ visited' = <<>>
    /\ pc' = "file"
    /\ UNCHANGED <<all_rows, final_mappings, workbook, results>>
    /\ UNCHANGED sheet_vars
    /\ UNCHANGED flow_vars

NextFile ==
    \/ ReadFails
    \/ SheetRaises
    \/ SheetReturns
    \/ ReturnNone
    \/ ReturnMatrix
    \/ CallAgain

SpecFile == InitFile /\ [][NextFile]_vars

-----------------------------------------------------------------------------
(* Properties of create_output_dataframe, checked under SpecAgg *)

\* what sheet category c reports for field f in period l, 0 if nothing
Reported(c, l, f) ==
    IF c \in DOMAIN all_data
    THEN IF l \in DOMAIN all_data[c]
         THEN IF f \in DOMAIN all_data[c][l] THEN all_data[c][l][f] ELSE 0
         ELSE 0
    ELSE 0

\* the sum over the two sheet categories
Total(l, f) == Reported("domestic", l, f) + Reported("overseas", l, f)

\* the periods some sheet category reports
Periods == {l \in AggLabels : \E c \in DOMAIN all_data : l \in DOMAIN all_data[c]}

\* the indices of the data rows of the canonical matrix
DataRowIndices == 3..Len(all_rows)

RowsOf(l) == {r \in DataRowIndices : all_rows[r][1] = l}

\* C1: for every period that some sheet category reports and every target
\* field, the value of the canonical matrix is the sum of the values the
\* sheet categories report for that field and period, 0 when none reports
\* it; a period that has no row reads as 0 in every field.
C1_AdditiveAggregation ==
    pc = "aggregated" =>
        \A l \in Periods :
            LET rows == RowsOf(l)
            IN \A i \in 1..Len(target_columns) :
                  IF rows = {}
                  THEN Total(l, target_columns[i]) = 0
                  ELSE \A r \in rows :
                          all_rows[r][i + 1] = Total(l, target_columns[i])

\* the scenario of the specification: A reports F1, B reports F1 and F2 for
\* the same period, the row holds F1 = a + b and F2
C1_Witness ==
    /\ pc = "aggregated"
    /\ \E l \in AggLabels :
          /\ DOMAIN all_data = {"domestic", "overseas"}
          /\ DOMAIN all_data["domestic"] = {l}
          /\ DOMAIN all_data["overseas"] = {l}
          /\ all_data["domestic"][l] = (target_columns[1] :> 1)
          /\ all_data["overseas"][l] =
                (target_columns[1] :> 1 @@ target_columns[2] :> -1)
          /\ Len(all_rows) = 3
          /\ all_rows[3][1] = l
          /\ all_rows[3][2] = 2
          /\ all_rows[3][3] = -1
          /\ \A i \in 3..Len(target_columns) : all_rows[3][i + 1] = 0

\* C2: a period is a data row of the canonical matrix if and only if the sum
\* of some target field for it is not zero; every row holds a non-zero value.
C2_DropRule ==
    pc = "aggregated" =>
        /\ \A l \in AggLabels :
              (RowsOf(l) # {}) <=>
                 (l \in Periods
                  /\ \E i \in 1..Len(target_columns) :
                        Total(l, target_columns[i]) # 0)
        /\ \A r \in DataRowIndices :
              \E i \in 1..Len(target_columns) : all_rows[r][i + 1] # 0

\* a period whose reported values cancel is dropped, another one is kept
C2_Witness ==
    /\ pc = "aggregated"
    /\ \E l \in Periods, k \in Periods :
          /\ Reported("domestic", l, target_columns[1]) = 1
          /\ Reported("overseas", l, target_columns[1]) = -1
          /\ RowsOf(l) = {}
          /\ RowsOf(k) # {}

TargetSet == {target_columns[i] : i \in 1..Len(target_columns)}

\* the MonthlyRecords without the fields that are no target field
OnlyTargetFields(ad) ==
    [c \in DOMAIN ad |->
        [l \in DOMAIN ad[c] |->
            [f \in DOMAIN ad[c][l] \cap TargetSet |-> ad[c][l][f]]]]

\* C3: the field columns of the canonical matrix are the target field list
\* in its order, every data row has one value per target field, and a field
\* that is no target field leaves no trace in the output.
C3_FieldSetClosure ==
    pc = "aggregated" =>
        /\ Len(all_rows) >= 2
        /\ all_rows[1] = <<None>> \o target_columns
        /\ \A r \in 1..Len(all_rows) : Len(all_rows[r]) = 1 + Len(target_columns)
        /\ \A l \in Periods :
              (\A i \in 1..Len(target_columns) : Total(l, target_columns[i]) = 0)
                 => RowsOf(l) = {}
        /\ all_rows = CreateOutput(OnlyTargetFields(all_data))

\* one period reports a target field and the other field and has a row,
\* another reports only the other field and has none
C3_Witness ==
    /\ pc = "aggregated"
    /\ \E l \in Periods, k \in Periods :
          /\ Total(l, OtherField) # 0
          /\ RowsOf(l) # {}
          /\ Total(k, OtherField) # 0
          /\ RowsOf(k) = {}

\* the period labels of the sheets, from the earliest to the latest
ByDate == <<Label(2024, 12), Label(2025, 2), Label(2025, 10)>>

Rank(l) == CHOOSE i \in 1..Len(ByDate) : ByDate[i] = l

\* C4: the data rows of the canonical matrix are in strictly ascending order
\* of period label, and a period label is the label of at most one row.
C4_RowsAscending ==
    pc = "aggregated" =>
        /\ \A r \in DataRowIndices : all_rows[r][1] \in AggLabels
        /\ \A r1 \in DataRowIndices, r2 \in DataRowIndices :
              r1 < r2 => Rank(all_rows[r1][1]) < Rank(all_rows[r2][1])
        /\ \A l \in AggLabels : Cardinality(RowsOf(l)) <= 1

\* three periods, three rows
C4_Witness ==
    /\ pc = "aggregated"
    /\ Len(all_rows) = 5
    /\ <<all_rows[3][1], all_rows[4][1], all_rows[5][1]>> = ByDate

-----------------------------------------------------------------------------
(* Properties of process_sheet, checked under SpecSheet *)

\* the row loop has started or the method has returned
Extracting == pc \in {"rows", "returned"} /\ mapping # <<>>

\* source row r is in the grid and its first cell is a period marker
MarkerRow(r) == r < NRows(df) /\ has_date(df[r + 1])

\* source row r was given a record
Emitted(r) == \E i \in 1..Len(emitted) : emitted[i] = r

RowsFromStart == data_row_start..(NRows(df) - 1)

\* C5: no record is emitted for the first row at or after the data-start row
\* whose first cell is no period marker, nor for any row after it; when the
\* data-start row k has a marker and data and row k+1 has no marker, exactly
\* one record, that of row k, is emitted.
C5_ExtractionTermination ==
    Extracting =>
        /\ \A r \in RowsFromStart :
              ~MarkerRow(r) => \A q \in RowsFromStart : q >= r => ~Emitted(q)
        /\ \A i \in 1..Len(emitted) : emitted[i] \in RowsFromStart
        /\ (/\ pc = "returned"
            /\ MarkerRow(data_row_start)
            /\ has_data(df[data_row_start + 1])
            /\ data_row_start + 1 < NRows(df)
            /\ ~MarkerRow(data_row_start + 1))
              => /\ emitted = <<data_row_start>>
                 /\ Cardinality(DOMAIN data_dict) = 1

\* row k has a marker and data, row k+1 has no marker, row k+2 has a marker
\* and data again: one record
C5_Witness ==
    /\ pc = "returned"
    /\ mapping # <<>>
    /\ emitted = <<data_row_start>>
    /\ Cardinality(DOMAIN data_dict) = 1
    /\ data_row_start + 2 < NRows(df)
    /\ ~MarkerRow(data_row_start + 1)
    /\ MarkerRow(data_row_start + 2)
    /\ has_data(df[data_row_start + 2 + 1])

\* a value cell that is empty or zero: no value, the number 0, blank text or
\* the text of the number 0
EmptyOrZero(c) ==
    \/ ~NotNa(c)
    \/ c.t = "num" /\ c.a = 0
    \/ c.t = "str" /\ Strip(c.s) \in {<<>>, <<"0">>}

\* the value cells of source row r are all empty or zero
AllEmptyOrZero(r) == \A i \in 2..Len(df[r + 1]) : EmptyOrZero(df[r + 1][i])

\* no row without a marker from the data-start row up to row r
MarkersUpTo(r) == \A q \in data_row_start..r : MarkerRow(q)

\* C6: a row with a period marker whose value cells are all empty or zero
\* produces no record and does not end the extraction: of the rows that no
\* marker-less row precedes, those with data, and only those, have a record.
C6_SkipNotStop ==
    (pc = "returned" /\ mapping # <<>>) =>
        \A r \in RowsFromStart :
            MarkersUpTo(r) => (Emitted(r) <=> ~AllEmptyOrZero(r))

\* the merge branch was taken: some column resolved, fewer than 80% of the
\* expected count
BelowThreshold ==
    /\ Len(col_mapping) >= 1
    /\ 10 * Len(col_mapping) < 8 * Len(StaticFallback[sheet_type])

\* the entries of a mapping
Range(m) == {m[i] : i \in 1..Len(m)}

\* C7: when the classifier resolves at least one column but fewer than 80%
\* of the expected count, the mapping used holds every column of the static
\* fallback table, a resolved column maps to its resolved field code, every
\* other fallback column to its fallback field code, and the static table is
\* not modified.
C7_FallbackMerge ==
    (Extracting /\ header_row # -1 /\ BelowThreshold) =>
        LET fallback == StaticFallback[sheet_type]
        IN /\ \A e \in Range(fallback) : \E x \in Range(mapping) : x.col = e.col
           /\ \A e \in Range(col_mapping) : e \in Range(mapping)
           /\ \A e \in Range(fallback) :
                 (\A d \in Range(col_mapping) : d.col # e.col)
                    => e \in Range(mapping)
           /\ \A x \in Range(mapping), y \in Range(mapping) :
                 x.col = y.col => x = y
           /\ \A x \in Range(mapping) :
                 x \in Range(col_mapping) \cup Range(fallback)
           /\ final_mappings = StaticFallback

\* a resolved column and the fallback table disagree on a field code
C7_Witness ==
    /\ Extracting
    /\ header_row # -1
    /\ BelowThreshold
    /\ \E d \in Range(col_mapping), e \in Range(StaticFallback[sheet_type]) :
          /\ d.col = e.col
          /\ d.target # e.target
          /\ d \in Range(mapping)
          /\ e \notin Range(mapping)

\* C8: when the classifier resolves at least 80% of the expected column
\* count, the mapping used is the dynamic mapping and nothing else; a count
\* of exactly 80% is enough.
C8_ThresholdDynamic ==
    (/\ Extracting
     /\ header_row # -1
     /\ Len(col_mapping) >= 1
     /\ 10 * Len(col_mapping) >= 8 * Len(StaticFallback[sheet_type]))
        => mapping = col_mapping

\* exactly 80% of the expected columns are resolved
C8_Witness ==
    /\ Extracting
    /\ header_row # -1
    /\ Len(col_mapping) >= 1
    /\ 10 * Len(col_mapping) = 8 * Len(StaticFallback[sheet_type])
    /\ mapping = col_mapping
    /\ \E e \in Range(StaticFallback[sheet_type]) : e \notin Range(mapping)

\* the fixed data-start row of a sheet category
FixedRowOf(st) == IF st \in {"overseas", "market_breakdown"} THEN 14 ELSE 13

\* C9 as the specification states it: with zero dynamic coverage, whether no
\* header row was found or no column was resolved, the mapping is the static
\* fallback table and extraction starts at the fixed data-start row.
C9_ZeroCoverageFixedStart ==
    (Extracting /\ col_mapping = <<>>) =>
        /\ mapping = StaticFallback[sheet_type]
        /\ data_row_start = FixedRowOf(sheet_type)

\* C9 amended: with zero dynamic coverage the mapping is the static fallback
\* table unmodified; extraction starts at the fixed data-start row when no
\* header row was found, and at the row the Data Row Locator returned when a
\* header row was found but no column was resolved.
C9_ZeroCoverage ==
    (Extracting /\ col_mapping = <<>>) =>
        /\ mapping = StaticFallback[sheet_type]
        /\ final_mappings = StaticFallback
        /\ header_row = -1 => data_row_start = FixedRowOf(sheet_type)
        /\ header_row # -1 =>
              /\ data_row_start = LocateDataRow(df, header_row)
              /\ data_row_start > header_row

\* a header row was found, no column was resolved, and a record was
\* extracted from the located row with the fallback table
C9_Witness ==
    /\ pc = "returned"
    /\ header_row # -1
    /\ col_mapping = <<>>
    /\ mapping = StaticFallback[sheet_type]
    /\ data_row_start # FixedRowOf(sheet_type)
    /\ emitted = <<data_row_start>>

\* C10: without the configuration document the processor has the header
\* patterns, the scope-code table and the indicator token lists, and
\* process_sheet does not raise.
C10_ConfigAbsenceNonFatal ==
    (pc # "new" /\ ~config_exists) =>
        /\ {"header_to_target", "sheet_scope", "column_indicators"} \subseteq attrs
        /\ pc # "raised"

-----------------------------------------------------------------------------
(* Properties of process_excel_file, checked under SpecFile *)

\* what the call that just returned gave back: no rows stands for None
LastResult == results[Len(results)]

\* the positions of the sheets the loop is to process
Positions == 0..(SheetsToProcess(workbook) - 1)

\* the sheet at position i is read and process_sheet gives a record that is
\* not empty
Yields(i) ==
    /\ workbook[i + 1].readable
    /\ config_exists
    /\ ProcessSheet(workbook[i + 1].grid, sheet_mappings[i + 1],
                    header_to_target(TRUE), StaticFallback) # EmptyDict

\* the positions of Positions that satisfy Ok, in ascending order
RECURSIVE Ascending(_, _)
Ascending(i, S) ==
    IF i >= SheetsToProcess(workbook) THEN <<>>
    ELSE (IF i \in S THEN <<i>> ELSE <<>>) \o Ascending(i + 1, S)

\* C11: for a readable workbook process_excel_file returns no matrix if and
\* only if no processed sheet yields a record that is not empty; otherwise
\* it returns a matrix; and every sheet that can be read is handed to
\* process_sheet, whatever the sheets before it yielded or raised.
C11_NoUsableSheets ==
    pc = "done" =>
        /\ (LastResult = <<>>) <=> (\A i \in Positions : ~Yields(i))
        /\ LastResult # <<>> =>
              /\ Len(LastResult) >= 2
              /\ LastResult[1] = <<None>> \o target_columns
        /\ visited = Ascending(0, {i \in Positions : workbook[i + 1].readable})

\* a sheet that cannot be read and a blank sheet come before a sheet with
\* data, and a matrix with a data row is returned
C11_Witness ==
    /\ pc = "done"
    /\ Len(LastResult) >= 3
    /\ \E i \in Positions, j \in Positions, k \in Positions :
          /\ i < k /\ j < k
          /\ workbook[i + 1] = Unreadable
          /\ workbook[j + 1] = BlankSheet
          /\ workbook[k + 1] = DataSheet
          /\ sheet_mappings[k + 1] \in DOMAIN all_data

\* C17: the sheet at position i (0 to 9) is processed as the i-th category
\* whatever its name; sheets from position 10 on are never handed to
\* process_sheet; a category has a record exactly if the sheet at its
\* position yields one, that record is the one of that sheet, and the
\* categories with a record are as many as the sheets that gave one.
C17_SheetCategoryBinding ==
    pc = "done" =>
        /\ \A k \in 1..Len(visited) : visited[k] \in 0..(SheetLimit - 1)
        /\ \A i \in Positions :
              LET category == sheet_mappings[i + 1]
              IN /\ category \in DOMAIN all_data <=> Yields(i)
                 /\ Yields(i) =>
                       all_data[category] =
                           ProcessSheet(workbook[i + 1].grid, category,
                                        header_to_target(TRUE), StaticFallback)
        /\ DOMAIN all_data \subseteq {sheet_mappings[i + 1] : i \in Positions}
        /\ Cardinality(DOMAIN all_data) = sheets_processed

\* a sheet named as the sheet of 'domestic' stands at position 3 and gives
\* the record of 'size_breakdown'; a sheet with data at position 10 is left
\* unread
C17_Witness ==
    /\ pc = "done"
    /\ Len(workbook) > SheetLimit
    /\ workbook[SheetLimit + 1] = DataSheet
    /\ workbook[4] = Named(DataSheet, JpDomestic)
    /\ DOMAIN all_data = {"size_breakdown"}
    /\ sheets_processed = 1

\* the sheet at position i processed alone by a fresh processor
Alone(i) ==
    ProcessSheet(workbook[i + 1].grid, sheet_mappings[i + 1],
                 header_to_target(TRUE), StaticFallback)

\* C24: processing a sheet leaves the static fallback tables as they were,
\* also when a table is returned as the mapping or merged with a dynamic
\* mapping, and the record stored for a sheet is the one that sheet gives
\* when processed alone, whatever sheets were processed before it.
C24_NoSharedState ==
    /\ final_mappings = StaticFallback
    /\ pc \in {"file", "done"} =>
          \A i \in Positions :
              (i < sheet_index /\ workbook[i + 1].readable /\ config_exists) =>
                  IF Alone(i) = EmptyDict
                  THEN sheet_mappings[i + 1] \notin DOMAIN all_data
                  ELSE all_data[sheet_mappings[i + 1]] = Alone(i)

\* a sheet processed with the fallback table as its mapping comes before a
\* sheet processed with a merged mapping, and both gave their record in
\* the second call as well
C24_Witness ==
    /\ pc = "done"
    /\ Len(results) = 2
    /\ workbook[1] = FallbackSheet
    /\ workbook[4] = DataSheet
    /\ DetectColumns(workbook[1].grid, "domestic", header_to_target(TRUE),
                     StaticFallback)[2] = StaticFallback["domestic"]
    /\ DOMAIN all_data = {"domestic", "size_breakdown"}
    /\ all_data["domestic"] = Alone(0)

\* C14: two calls of process_excel_file on the same workbook with the same
\* configuration return the same matrix, row for row and cell for cell; the
\* first call leaves the processor's tables as they were.
C14_Idempotence ==
    /\ Len(results) = 2 => results[1] = results[2]
    /\ Len(results) >= 1 => final_mappings = StaticFallback

\* both calls return a matrix with a data row, from a sheet whose mapping
\* is the merge of a resolved column with the fallback table
C14_Witness ==
    /\ Len(results) = 2
    /\ Len(results[2]) >= 3
    /\ \E i \in Positions :
          /\ workbook[i + 1] = DataSheet
          /\ LET d == DetectColumns(DataSheet.grid, sheet_mappings[i + 1],
                                    header_to_target(TRUE), StaticFallback)
             IN /\ d[2] # StaticFallback[sheet_mappings[i + 1]]
                /\ Len(d[2]) >= Len(StaticFallback[sheet_mappings[i + 1]])

-----------------------------------------------------------------------------
(* Properties of the values process_sheet extracts, checked under          *)
(* SpecSheet                                                               *)

\* the number a text cell stands for: "1,234" is 1234, "-7" is -7, "0" is
\* 0; "-", "n/a" and "1.2.3" stand for no number
TextReading(t) ==
    CASE t = <<"1", ",", "2", "3", "4">> -> 1234
      [] t = <<"-", "7">> -> -7
      [] OTHER -> 0

\* the value expected of a cell: its own if it is a number, that of its
\* text, 0 if it is empty or no number
Reading(c) ==
    CASE c.t = "num" -> c.a
      [] c.t = "str" -> TextReading(c.s)
      [] OTHER -> 0

\* the row the latest record was emitted for, and that record
LastRow == emitted[Len(emitted)]

LastRecord ==
    data_dict[MonthLabel(Cell(df, LastRow, 0), LastRow - data_row_start)]

\* the entries of the mapping that no later entry with the same field code
\* follows
Deciding == {i \in 1..Len(mapping) :
                \A j \in 1..Len(mapping) :
                    mapping[j].target = mapping[i].target => j <= i}

\* C12: the record of an emitted row holds a value for every field code of
\* the mapping; an entry whose column is past the grid width gives 0, an
\* empty cell gives 0, a cell that is no number gives 0, and every other
\* field keeps the value of its own cell.
C12_CellFailuresDegradeToZero ==
    (Extracting /\ emitted # <<>>) =>
        /\ DOMAIN LastRecord = {mapping[i].target : i \in 1..Len(mapping)}
        /\ \A i \in Deciding :
              LastRecord[mapping[i].target] =
                 IF mapping[i].col >= NCols(df) THEN 0
                 ELSE Reading(Cell(df, LastRow, mapping[i].col))

\* one field is read from a text that is no number, one from a number, and
\* a third is mapped past the grid width
C12_Witness ==
    /\ pc = "returned"
    /\ emitted # <<>>
    /\ \E i \in Deciding, j \in Deciding, k \in Deciding :
          /\ mapping[i].col < NCols(df)
          /\ Cell(df, LastRow, mapping[i].col) = CellDotted
          /\ LastRecord[mapping[i].target] = 0
          /\ mapping[j].col < NCols(df)
          /\ Cell(df, LastRow, mapping[j].col) = Num(-3)
          /\ LastRecord[mapping[j].target] = -3
          /\ mapping[k].col >= NCols(df)
          /\ LastRecord[mapping[k].target] = 0

\* C13: a mapped text cell is read by deleting every character other than
\* digits, '.' and '-' and reading the rest as a number, so "1,234" gives
\* 1234 and "-7" gives -7; a text whose rest is empty or a lone '-' gives
\* 0; a numeric cell gives its own value.
C13_NumericNormalization ==
    (Extracting /\ emitted # <<>>) =>
        \A i \in Deciding :
            mapping[i].col < NCols(df) =>
                LET c == Cell(df, LastRow, mapping[i].col)
                    v == LastRecord[mapping[i].target]
                IN /\ c = CellThousands => v = 1234
                   /\ c = CellNegative => v = -7
                   /\ c \in {CellDash, CellWord, Str(<<"0">>)} => v = 0
                   /\ c.t = "num" => v = c.a

\* "1,234" and "-" are read in the same row
C13_Witness ==
    /\ pc = "returned"
    /\ emitted # <<>>
    /\ \E i \in Deciding, j \in Deciding :
          /\ mapping[i].col < NCols(df)
          /\ mapping[j].col < NCols(df)
          /\ Cell(df, LastRow, mapping[i].col) = CellThousands
          /\ LastRecord[mapping[i].target] = 1234
          /\ Cell(df, LastRow, mapping[j].col) = CellDash
          /\ LastRecord[mapping[j].target] = 0

-----------------------------------------------------------------------------
(* Properties of the period labels, checked under SpecSheet                *)

\* the counter when source row r is visited
CounterAt(r) == r - data_row_start

\* the label process_sheet files the record of source row r under
LabelOf(r) == MonthLabel(Cell(df, r, 0), CounterAt(r))

\* C15: the labels of the rows a record was emitted for are pairwise
\* distinct and non-decreasing in source-row order, the MonthlyRecord has
\* one entry per emitted row, and each emitted row's values are the ones
\* stored under its label.
C15_LabelDiscipline ==
    Extracting =>
        /\ \A i, j \in 1..Len(emitted) :
              i < j => /\ LabelOf(emitted[i]) # LabelOf(emitted[j])
                       /\ ~LexLess(LabelOf(emitted[j]), LabelOf(emitted[i]))
        /\ Cardinality(DOMAIN data_dict) = Len(emitted)
        /\ \A i \in 1..Len(emitted) :
              data_dict[LabelOf(emitted[i])] =
                  MonthlyData(df, emitted[i], mapping)

\* "2025-MM" for the counter values the row loop reaches
SyntheticLabel(counter) ==
    <<"2", "0", "2", "5", "-">> \o
    (IF counter + 1 < 10 THEN <<"0", Digits[counter + 2]>>
     ELSE <<"1", Digits[counter - 8]>>)

\* the label the specification gives source row r
ExpectedLabel(r) ==
    LET c == Cell(df, r, 0)
    IN CASE c = MarkerDate -> <<"2", "0", "2", "4", "-", "1", "2">>
         [] c = Date(2025, 1) -> <<"2", "0", "2", "5", "-", "0", "1">>
         [] c = MarkerKanji -> <<"2", "0", "2", "5", "-", "0", "3">>
         [] c = MarkerPacked -> <<"2", "0", "2", "5", "-", "1", "1">>
         [] c = Str(<<"2", "0", "2", "5", "/", "2">>) ->
               <<"2", "0", "2", "5", "-", "0", "2">>
         [] c = Marker13 -> <<"2", "0", "2", "5", "-", "1", "3">>
         [] c = Marker00 -> <<"2", "0", "2", "5", "-", "0", "0">>
         [] OTHER -> SyntheticLabel(CounterAt(r))

\* C16: the record's labels are those of the emitted rows: YYYY-MM of a
\* date-typed first cell, else year and month of the first pattern match
\* in its text, else 2025-(counter+1) where the counter is the number of
\* rows visited since the data-start row, skipped rows included.
C16_PeriodLabeling ==
    Extracting =>
        DOMAIN data_dict = {ExpectedLabel(emitted[i]) : i \in 1..Len(emitted)}

\* a row "FY2025" is emitted as the third row visited, after a row labeled
\* by pattern and a skipped row
C16_Witness ==
    /\ pc = "returned"
    /\ Len(emitted) = 2
    /\ Cell(df, emitted[1], 0) \in {MarkerPacked, MarkerKanji}
    /\ Cell(df, emitted[2], 0) = MarkerFiscal
    /\ CounterAt(emitted[2]) = 2
    /\ SyntheticLabel(2) \in DOMAIN data_dict

-----------------------------------------------------------------------------
(* Properties of header detection, checked under SpecSheet                 *)

\* a cell of source row r holds "Number" or its Japanese counterpart
HasNumberToken(r) ==
    \E c \in 1..NCols(df) :
        /\ df[r + 1][c].t = "str"
        /\ \/ Contains(<<"N", "u", "m", "b", "e", "r">>, df[r + 1][c].s)
           \/ Contains(<<"u4EF6", "u6570">>, df[r + 1][c].s)

\* the rows of the scan window that hold a number indicator
WindowHits == {r \in 0..(NRows(df) - 1) : r < 15 /\ HasNumberToken(r)}

\* header detection is over
Scanned == pc \in {"locate", "classify", "gate", "rows", "returned"}

\* C18: the header row is the smallest index among the first 15 rows (all
\* rows if fewer) whose text holds a number indicator; when no row of the
\* window does, the locator and the classifier are not run and the static
\* fallback table and fixed data-start row are returned, even if a row from
\* index 15 on holds one.
C18_HeaderWindow ==
    Scanned =>
        IF WindowHits = {}
        THEN /\ header_row = -1
             /\ data_start_row = -1
             /\ col_mapping = <<>>
             /\ pc \notin {"locate", "classify", "gate"}
             /\ mapping = StaticFallback[sheet_type]
             /\ data_row_start = FixedRowOf(sheet_type)
        ELSE /\ header_row \in WindowHits
             /\ \A r \in WindowHits : header_row <= r

\* row 15 holds "Number", no row before it does, and the sheet was processed
\* with the fallback table from the fixed row
C18_Witness ==
    /\ pc = "returned"
    /\ NRows(df) > 15
    /\ HasNumberToken(15)
    /\ WindowHits = {}
    /\ header_row = -1
    /\ mapping = StaticFallback[sheet_type]

\* the Data Row Locator has returned
Located == header_row # -1 /\ pc \in {"classify", "gate", "rows", "returned"}

\* source row r has a period marker and a non-zero numeric value
MarkedDataRow(r) ==
    /\ LocatorMarker(Cell(df, r, 0))
    /\ has_numeric_data(df[r + 1])

\* C19: when a header row was found and the data-start index returned lies
\* inside the grid, it is the first row below the header row that has a
\* period marker in its first cell and a non-zero numeric value in columns
\* 1..N; a row with numeric content and no marker is never returned.
C19_DataRowLocator ==
    (Located /\ data_start_row < NRows(df)) =>
        /\ data_start_row > header_row
        /\ MarkedDataRow(data_start_row)
        /\ \A r \in (header_row + 1)..(data_start_row - 1) : ~MarkedDataRow(r)

-----------------------------------------------------------------------------
(* Properties of the Column Classifier, checked under SpecSheet            *)

\* the header cells of column c: the rows the classifier reads
HeaderCells(c) ==
    {Cell(df, r, c) : r \in {r \in 0..header_row : r >= header_row - 6}}

\* the category texts of the configuration with the code each stands for
\* and the fields that code has
CategoryTexts ==
    <<[text |-> <<"N", "o", "n", " ", "I", "P", "O">>, code |-> "SNIPO",
       number |-> TRUE, amount |-> TRUE],
      [text |-> <<"T", "o", "t", "a", "l">>, code |-> "TTL",
       number |-> TRUE, amount |-> FALSE],
      [text |-> <<"I", "P", "O">>, code |-> "SIPO",
       number |-> TRUE, amount |-> TRUE],
      [text |-> <<"C", "B">>, code |-> "CB",
       number |-> TRUE, amount |-> TRUE],
      [text |-> <<"L", "e", "s", "s", " ", "t", "h", "a", "n", " ", "1", "0">>,
       code |-> "L10B", number |-> TRUE, amount |-> FALSE],
      [text |-> <<"1", "0", "0", " ", "b", "i", "l", "l", "i", "o", "n", " ",
                  "y", "e", "n", " ", "o", "r", " ", "m", "o", "r", "e">>,
       code |-> "M100B", number |-> FALSE, amount |-> TRUE]>>

\* the category texts found in the header cells of column c
TextsIn(c) ==
    {i \in 1..Len(CategoryTexts) :
        \E x \in HeaderCells(c) :
            x.t = "str" /\ Contains(CategoryTexts[i].text, x.s)}

\* the code of the category named in the header cells of column c, that of
\* the longest text if there are several, "" if there is none
OwnCategory(c) ==
    LET found == TextsIn(c)
    IN IF found = {} THEN ""
       ELSE CategoryTexts[CHOOSE i \in found :
                             \A j \in found :
                                 Len(CategoryTexts[i].text)
                                     >= Len(CategoryTexts[j].text)].code

\* the category has a number field
HasNumberField(code) ==
    \E i \in 1..Len(CategoryTexts) :
        CategoryTexts[i].code = code /\ CategoryTexts[i].number

\* the category has an amount field
HasAmountField(code) ==
    \E i \in 1..Len(CategoryTexts) :
        CategoryTexts[i].code = code /\ CategoryTexts[i].amount

\* the category of the nearest column at or to the left of c that names
\* one, "" if no column does
RECURSIVE Context(_)
Context(c) ==
    IF c < 1 THEN ""
    ELSE LET own == OwnCategory(c)
         IN IF own # "" THEN own ELSE Context(c - 1)

NumberColumn(c) ==
    \/ Str(<<"N", "u", "m", "b", "e", "r">>) \in HeaderCells(c)
    \/ Str(<<"u4EF6", "u6570">>) \in HeaderCells(c)

AmountColumn(c) == Str(<<"A", "m", "o", "u", "n", "t">>) \in HeaderCells(c)

\* the header cells of column c name no category and no indicator
PlainHeader(c) == OwnCategory(c) = "" /\ ~NumberColumn(c) /\ ~AmountColumn(c)

\* the data-start-row cell of column c is a number, or a text that is all
\* digits once its dots and minus signs are removed
SampleNumeric(c) ==
    /\ data_start_row < NRows(df)
    /\ LET x == Cell(df, data_start_row, c)
           rest == SelectSeq(x.s, LAMBDA ch : ch \notin {".", "-"})
       IN \/ x.t = "num"
          \/ /\ x.t = "str"
             /\ rest # <<>>
             /\ \A k \in 1..Len(rest) :
                   rest[k] \in {"0", "1", "2", "3", "4", "5", "6", "7", "8", "9"}

SizeSheet == sheet_type \in {"size_breakdown", "secondary_size"}

\* Deferred(c): column c is an amount column of a category with an amount
\* field whose data cell is not numeric, so its code is pending after c.
\* Bound(c): column c takes the code pending after column c - 1.
RECURSIVE Deferred(_), Bound(_)
Deferred(c) ==
    /\ c >= 1
    /\ ~SizeSheet
    /\ AmountColumn(c) /\ ~NumberColumn(c)
    /\ ~SampleNumeric(c)
    /\ LET running == Context(c)
       IN HasNumberField(running) /\ HasAmountField(running)
    /\ ~Bound(c)

Bound(c) == c > 1 /\ SampleNumeric(c) /\ PlainHeader(c) /\ Deferred(c - 1)

\* on a size sheet a column is resolved by its own category; elsewhere a
\* number column by the running category, an amount column with a numeric
\* data cell by a running category that has an amount field, and a column
\* that takes a pending amount code by the category that code belongs to
Resolved(c) ==
    IF SizeSheet
    THEN HasNumberField(OwnCategory(c))
    ELSE \/ Bound(c)
         \/ LET running == Context(c)
            IN /\ HasNumberField(running)
               /\ \/ NumberColumn(c)
                  \/ /\ AmountColumn(c)
                     /\ HasAmountField(running)
                     /\ SampleNumeric(c)

\* the field code such a column resolves to
ResolvedField(c) ==
    <<Context(c),
      CASE sheet_type = "size_breakdown" -> "SZ"
        [] sheet_type = "overseas" -> "OVR"
        [] sheet_type = "reference" -> "REF"
        [] sheet_type = "secondary_size" -> "SDSZ"
        [] OTHER -> "DOM",
      IF sheet_type \in {"size_breakdown", "secondary_size"} \/ NumberColumn(c)
      THEN "N.M" ELSE "A.M">>

\* the Column Classifier has run
Classified == header_row # -1 /\ pc = "gate"

\* C20: the dynamic mapping holds exactly the columns resolved under the
\* running category, which is set by the nearest column at or to the left
\* that names a category and persists across columns that name none; a
\* number or amount column before any category is unmapped.
C20_RunningCategory ==
    Classified =>
        /\ Cols(col_mapping) = {c \in 1..(NCols(df) - 1) : Resolved(c)}
        /\ \A i \in 1..Len(col_mapping) :
              col_mapping[i].target = ResolvedField(col_mapping[i].col)
        /\ \A c \in 1..(NCols(df) - 1) :
              Context(c) = "" => c \notin Cols(col_mapping)

\* "Non IPO" stands over column 2 only: column 1, a number column, is
\* unmapped, column 2 is its number field and column 3, which names no
\* category, is its amount field
C20_Witness ==
    /\ Classified
    /\ sheet_type = "overseas"
    /\ NCols(df) = 4
    /\ NumberColumn(1) /\ OwnCategory(1) = ""
    /\ OwnCategory(2) = "SNIPO" /\ NumberColumn(2)
    /\ OwnCategory(3) = "" /\ AmountColumn(3)
    /\ col_mapping = <<[col |-> 2, target |-> <<"SNIPO", "OVR", "N.M">>],
                       [col |-> 3, target |-> <<"SNIPO", "OVR", "A.M">>]>>

\* C21: an amount column whose data-start-row cell is not numeric is left
\* unmapped and its amount code becomes pending; the next column takes the
\* code exactly if its header names no category and no indicator and its
\* data-start-row cell is numeric; otherwise the code is dropped there, so
\* a column with such a header is mapped only in that way.
C21_MergedCellCarryOver ==
    (Classified /\ ~SizeSheet) =>
        \A c \in 1..(NCols(df) - 1) :
            /\ Deferred(c) => c \notin Cols(col_mapping)
            /\ Bound(c) =>
                  /\ c \in Cols(col_mapping)
                  /\ Lookup(col_mapping, c) =
                        <<Context(c - 1), ResolvedField(c)[2], "A.M">>
            /\ (PlainHeader(c) /\ c \in Cols(col_mapping)) => Bound(c)

\* the amount column of "Non IPO" holds "1,234" in the data row and is
\* unmapped; the column after it, headed "unit", takes its amount code; the
\* last column, without header and with a number, is unmapped
C21_Witness ==
    /\ Classified
    /\ sheet_type = "overseas"
    /\ NCols(df) = 5
    /\ Cell(df, data_start_row, 2) = CellThousands
    /\ Deferred(2)
    /\ Cell(df, 0, 3) = CellUnit
    /\ Bound(3)
    /\ PlainHeader(4) /\ SampleNumeric(4)
    /\ col_mapping = <<[col |-> 1, target |-> <<"SNIPO", "OVR", "N.M">>],
                       [col |-> 3, target |-> <<"SNIPO", "OVR", "A.M">>]>>

\* C22: a mapped column whose header holds several category texts is given
\* the code of the longest of them; the code of a registry pattern that is
\* an indicator token ("Number") is given to no column.
C22_LongestPattern ==
    Classified =>
        \A k \in 1..Len(col_mapping) :
            LET c == col_mapping[k].col
                code == col_mapping[k].target[1]
            IN /\ code # "NUMB"
               /\ TextsIn(c) # {} =>
                     \E i \in TextsIn(c) :
                         /\ \A j \in TextsIn(c) :
                               Len(CategoryTexts[i].text)
                                   >= Len(CategoryTexts[j].text)
                         /\ code = CategoryTexts[i].code

\* "IPO" stands above "Total" above "Number": the column is the number
\* field of Total, the longest text, although IPO comes first in the
\* registry and "Number" is a registry pattern too
C22_Witness ==
    /\ Classified
    /\ sheet_type = "overseas"
    /\ NRows(df) = 4
    /\ Cell(df, 0, 1) = Str(TxtIPO)
    /\ Cell(df, 1, 1) = Str(TxtTotal)
    /\ \E i \in 1..Len(header_to_target(TRUE)) :
          header_to_target(TRUE)[i].pattern = TxtNumber
    /\ col_mapping = <<[col |-> 1, target |-> <<"TTL", "OVR", "N.M">>]>>

\* C23: on a size_breakdown or secondary_size sheet a column is mapped
\* exactly if its own header names a category that has a number field, and
\* then to that number field with the sheet's scope code, whatever
\* indicator it stands under; a column that names no category is unmapped
\* even under a running category.
C23_SizeSheets ==
    (Classified /\ SizeSheet) =>
        /\ Cols(col_mapping) =
              {c \in 1..(NCols(df) - 1) : HasNumberField(OwnCategory(c))}
        /\ \A k \in 1..Len(col_mapping) :
              col_mapping[k].target =
                  <<OwnCategory(col_mapping[k].col),
                    IF sheet_type = "size_breakdown" THEN "SZ" ELSE "SDSZ",
                    "N.M">>
        /\ \A c \in 1..(NCols(df) - 1) :
              (OwnCategory(c) = "" /\ Context(c) # "") =>
                  c \notin Cols(col_mapping)

\* on a secondary_size sheet "Less than 10" stands over column 1; column
\* 2, a number column without category, is unmapped; column 3, "Total"
\* over an amount indicator, is the number field of Total
C23_Witness ==
    /\ Classified
    /\ sheet_type = "secondary_size"
    /\ NCols(df) = 4
    /\ OwnCategory(2) = "" /\ NumberColumn(2) /\ Context(2) = "L10B"
    /\ AmountColumn(3)
    /\ col_mapping = <<[col |-> 1, target |-> <<"L10B", "SDSZ", "N.M">>],
                       [col |-> 3, target |-> <<"TTL", "SDSZ", "N.M">>]>>

-----------------------------------------------------------------------------
(* Termination of the loops, checked under LiveSheet                       *)

\* the rows the row loop has gone through
RowsVisited == data_row_start..(data_row_start + month - 1)

\* the row loop takes the rows one by one from the data-start row, emits in
\* increasing row order, goes on only from rows with a period marker and
\* ends at the end of the grid or at the first row without one; the
\* verification loop ends where the locator as a whole ends
LoopOrder ==
    /\ Extracting =>
          /\ \A i, j \in 1..Len(emitted) : i < j => emitted[i] < emitted[j]
          /\ \A i \in 1..Len(emitted) : emitted[i] \in RowsVisited
          /\ \A r \in RowsVisited : MarkerRow(r)
          /\ pc = "returned" => ~MarkerRow(data_row_start + month)
    /\ (header_row # -1 /\ pc \in {"classify", "gate", "rows", "returned"}) =>
          data_start_row = LocateDataRow(df, header_row)

\* C25: the verification loop of the Data Row Locator and the row loop of
\* the Monthly Extractor terminate; the extractor visits the rows in
\* strictly increasing order, each at most once, and stops exactly when the
\* row index reaches the number of rows or the row has no period marker.
C25_Termination ==
    /\ [] LoopOrder
    /\ (pc = "verify") ~> (pc = "classify")
    /\ (pc = "rows") ~> (pc = "returned")

\* the verification loop went past a marker row without value, a row was
\* skipped, a record was emitted, and the row loop stopped inside the grid
\* at a row without marker
C25_Witness ==
    /\ pc = "returned"
    /\ header_row # -1
    /\ data_start_row > FirstMarkerRow(df, header_row)
    /\ emitted # <<>>
    /\ Len(emitted) < month
    /\ data_row_start + month < NRows(df)

-----------------------------------------------------------------------------
(* The period marker of the locator and of the extractor                   *)

\* the locator chose the row data_row_start because of its period marker
ChosenByMarker ==
    /\ header_row # -1
    /\ pc \in {"rows", "returned"}
    /\ mapping # <<>>
    /\ data_row_start < NRows(df)
    /\ data_row_start = FirstMarkerRow(df, header_row)
    /\ LocatorMarker(Cell(df, data_row_start, 0))

\* C26: every row the Data Row Locator accepts as carrying a period marker
\* is accepted by the continue condition of the Monthly Extractor, so the
\* extraction does not end with zero rows gone through at the row the
\* locator chose as data start.
C26_MarkerAgreement ==
    ChosenByMarker =>
        /\ has_date(df[data_row_start + 1])
        /\ pc = "returned" => month > 0

-----------------------------------------------------------------------------
(* The mapping the row loop works with                                     *)

\* C27: in the mapping handed to the Monthly Extractor no field code is
\* assigned to two column indices, so the value recorded for a field comes
\* from one cell only.
C27_MappingInjective ==
    pc \in {"rows", "returned"} =>
        \A i, j \in 1..Len(mapping) :
            mapping[i].target = mapping[j].target => i = j

-----------------------------------------------------------------------------
(* The scope of the codes the classifier assigns                           *)

\* the scope code of the sheet's category
OwnScope ==
    CASE sheet_type = "size_breakdown" -> "SZ"
      [] sheet_type = "overseas" -> "OVR"
      [] sheet_type = "reference" -> "REF"
      [] sheet_type = "secondary_size" -> "SDSZ"

\* the classifier has run on the sheet
ClassifierRan == header_row # -1 /\ pc \in {"gate", "rows", "returned"}

\* C28: every field code the Column Classifier assigns on a sheet of
\* category C holds C's scope code, and so does every field of the records
\* extracted with the mapping built from it.
C28_ScopePurity ==
    ClassifierRan =>
        /\ \A i \in 1..Len(col_mapping) : col_mapping[i].target[2] = OwnScope
        /\ \A label \in DOMAIN data_dict :
              \A f \in DOMAIN data_dict[label] : f[2] = OwnScope

\* the classifier assigned codes on an overseas sheet and on it a record
\* was extracted
C28_Witness ==
    /\ ClassifierRan
    /\ sheet_type = "overseas"
    /\ Len(col_mapping) >= 2
    /\ data_dict # EmptyDict

-----------------------------------------------------------------------------
(* The form of the period labels                                           *)

\* YYYY-MM with MM in 01..12
WellFormedLabel(l) ==
    /\ Len(l) = 7
    /\ \A i \in {1, 2, 3, 4, 6, 7} : IsDigit(l[i])
    /\ l[5] = "-"
    /\ DigitsToNat(SubSeq(l, 6, 7)) \in 1..12

\* C29: every period label stored in a MonthlyRecord has the form YYYY-MM
\* with a month number between 01 and 12, the labels parsed from text and
\* the labels derived from the row counter included.
C29_WellFormedLabels ==
    Extracting => \A label \in DOMAIN data_dict : WellFormedLabel(label)

-----------------------------------------------------------------------------
(* JSDAOrchestrator: the workflow of download, processing and summary      *)

\* calls made on one orchestrator
MaxCalls == 3

\* list(self.download_dir.glob('*.xls*')), in the order the directory gives
DirListings ==
    {<<>>, <<"a.xls">>, <<"b.xlsx">>, <<"a.xls", "b.xlsx">>,
     <<"b.xlsx", "a.xls">>}

\* what the scraper and the directory do in step 1
DownloadOutcomes == {"rmtree_raises", "scraper_raises", "failed", "success"}

\* what the processor and save_output do in step 2
ProcessorOutcomes == {"init_raises", "raises", "none", "not_saved", "saved"}

OutputName == "JSDA_FINAL.xlsx"

\* if files: downloaded_file = str(files[0]); download_completed = True
UseFirstFile(ws, files) ==
    IF files # <<>>
    THEN [ok |-> TRUE,
          state |-> [ws EXCEPT !.downloaded_file = files[1],
                               !.download_completed = TRUE]]
    ELSE [ok |-> FALSE, state |-> ws]

\* step_1_download_data: the result, the state and the directory after
Step1(ws, dir, skip, outcome, files) ==
    IF skip
    THEN [ok |-> UseFirstFile(ws, dir).ok, state |-> UseFirstFile(ws, dir).state,
          dir |-> dir]
    ELSE IF outcome = "rmtree_raises"
         THEN [ok |-> FALSE, state |-> ws, dir |-> dir]
         ELSE IF outcome = "success"
              THEN [ok |-> UseFirstFile(ws, files).ok,
                    state |-> UseFirstFile(ws, files).state, dir |-> files]
              ELSE [ok |-> FALSE, state |-> ws, dir |-> files]

\* step 2 that asks nothing
AlwaysProcess(ws) == TRUE

\* the two early returns of step_2_process_data do not apply
CanProcess(ws) == ws.download_completed /\ ws.downloaded_file \notin {Unset, ""}

\* step_2_process_data: the result, the state after, and whether
\* process_excel_file was called
Step2(ws, outcome) ==
    IF ~CanProcess(ws)
    THEN [ok |-> FALSE, state |-> ws, invoked |-> FALSE]
    ELSE IF outcome = "saved"
         THEN [ok |-> TRUE,
               state |-> [ws EXCEPT !.processing_completed = TRUE,
                                    !.output_generated = TRUE,
                                    !.output_file = OutputName],
               invoked |-> TRUE]
         ELSE [ok |-> FALSE, state |-> ws,
               invoked |-> outcome # "init_raises"]

Outcome(ok) == IF ok THEN "ok" ELSE "failed"

\* where a call stands after a step: a step called on its own returns its
\* result; the workflow returns False on a failed step 1 or 2, and True
\* after step 3 whatever its result
AfterStep(f, step, ok) ==
    IF f.mode = "step"
    THEN [f EXCEPT !.pc = "idle", !.returned = IF ok THEN "True" ELSE "False"]
    ELSE CASE step = 3 -> [f EXCEPT !.pc = "idle", !.returned = "True"]
           [] step # 3 /\ ok ->
                 [f EXCEPT !.pc = IF step = 1 THEN "step2" ELSE "step3"]
           [] OTHER -> [f EXCEPT !.pc = "idle", !.returned = "False"]

Begin(f, mode, first, skip) ==
    [f EXCEPT !.pc = first, !.mode = mode, !.skip = skip,
              !.step1 = "notrun", !.step2 = "notrun", !.step3 = "notrun",
              !.returned = "none", !.calls = @ + 1]

rest_vars == <<pc, all_data, all_rows, final_mappings>>

\* run_complete_workflow(skip_download) is called
CallWorkflow ==
    /\ flow.pc = "idle"
    /\ flow.calls < MaxCalls
    /\ \E skip \in BOOLEAN : flow' = Begin(flow, "workflow", "step1", skip)
    /\ UNCHANGED <<workflow_state, sheet_vars, file_vars, rest_vars>>

\* one of the steps is called on its own
CallStep ==
    /\ flow.pc = "idle"
    /\ flow.calls < MaxCalls
    /\ \E first \in {"step1", "step2", "step3"}, skip \in BOOLEAN :
          flow' = Begin(flow, "step", first, skip)
    /\ UNCHANGED <<workflow_state, sheet_vars, file_vars, rest_vars>>

DownloadStep ==
    /\ flow.pc = "step1"
    /\ \E outcome \in DownloadOutcomes, files \in DirListings :
          LET r == Step1(workflow_state, flow.download_dir, flow.skip,
                         outcome, files)
          IN /\ workflow_state' = r.state
             /\ flow' = AfterStep([flow EXCEPT !.step1 = Outcome(r.ok),
                                               !.download_dir = r.dir],
                                  1, r.ok)
    /\ UNCHANGED <<sheet_vars, file_vars, rest_vars>>

ProcessStep ==
    /\ flow.pc = "step2"
    /\ \E outcome \in ProcessorOutcomes :
          LET r == Step2(workflow_state, outcome)
              seen == [download_completed |->
                           workflow_state.download_completed,
                       downloaded_file |-> workflow_state.downloaded_file]
          IN /\ workflow_state' = r.state
             /\ flow' = AfterStep(
                   [flow EXCEPT !.step2 = Outcome(r.ok),
                                !.invocations =
                                    IF r.invoked THEN Append(@, seen) ELSE @],
                   2, r.ok)
    /\ UNCHANGED <<sheet_vars, file_vars, rest_vars>>

\* step_3_generate_summary: writes the summary or catches what it raises
SummaryStep ==
    /\ flow.pc = "step3"
    /\ \E ok \in BOOLEAN :
          flow' = AfterStep([flow EXCEPT !.step3 = Outcome(ok)], 3, ok)
    /\ UNCHANGED <<workflow_state, sheet_vars, file_vars, rest_vars>>

InitFlow ==
    /\ workflow_state = NewWorkflowState
    /\ flow \in {NewFlow(dir) : dir \in DirListings}
    /\ pc = "orchestrator"
    /\ all_data = EmptyDict
    /\ all_rows = <<>>
    /\ final_mappings = StaticFallback
    /\ df = <<>>
    /\ sheet_type = ""
    /\ config_exists = TRUE
    /\ attrs = ProcessorAttrs(TRUE)
    /\ header_row = -1
    /\ data_start_row = -1
    /\ col_mapping = <<>>
    /\ data_row_start = -1
    /\ mapping = <<>>
    /\ month = 0
    /\ data_dict = EmptyDict
    /\ emitted = <<>>
    /\ workbook = <<>>
    /\ sheet_index = 0
    /\ sheets_processed = 0
    /\ visited = <<>>
    /\ results = <<>>

NextFlow ==
    \/ CallWorkflow
    \/ CallStep
    \/ DownloadStep
    \/ ProcessStep
    \/ SummaryStep

SpecFlow == InitFlow /\ [][NextFlow]_vars

\* C30: processing_completed implies download_completed; processing_completed,
\* output_generated and a set output_file go together; step 2 hands no file
\* to the processor while download_completed is false or downloaded_file is
\* unset; run_complete_workflow returns True exactly when step 1 and then
\* step 2 succeeded, whatever the summary step did.
C30_WorkflowOrdering ==
    /\ workflow_state.processing_completed =>
          workflow_state.download_completed
    /\ workflow_state.processing_completed = workflow_state.output_generated
    /\ workflow_state.processing_completed =
          (workflow_state.output_file # Unset)
    /\ \A i \in 1..Len(flow.invocations) :
          /\ flow.invocations[i].download_completed
          /\ flow.invocations[i].downloaded_file # Unset
    /\ (flow.mode = "workflow" /\ flow.pc = "idle") =>
          /\ flow.returned \in {"True", "False"}
          /\ flow.returned = "True" <=>
                (flow.step1 = "ok" /\ flow.step2 = "ok")
          /\ flow.step2 # "notrun" => flow.step1 = "ok"

\* a workflow returned True although its summary step failed, on an
\* orchestrator that had handed a file to the processor once before
C30_Witness ==
    /\ flow.mode = "workflow"
    /\ flow.pc = "idle"
    /\ flow.returned = "True"
    /\ flow.step3 = "failed"
    /\ Len(flow.invocations) = 2
    /\ workflow_state.processing_completed

=============================================================================
